---- MODULE Spec2Model ----
(***************************************************************************)
(* Model of the structural SQL chunker and chunk reassembler               *)
(* (src/src/services/sql_chunker.py).  SQL text is a sequence of           *)
(* one-character strings; every scanner is modelled character by           *)
(* character, with the 0-based indexes kept at the interfaces that    *)
(* return an index.                                                        *)
(***************************************************************************)
EXTENDS Integers, Sequences, FiniteSets, TLC

VARIABLES
    sql_in,         \* the argument of SQLChunker(sql)
    original_sql,   \* self.original_sql
    max_len,        \* MAX_SQL_LENGTH (module level, from the environment)
    max_lines,      \* MAX_SQL_LINES  (module level, from the environment)
    decision,       \* what should_chunk() returned: "unset", "yes", "no"
    pc,             \* "new", "chunked", "raised", "merged", "convert_raised", "idle"
    exc,            \* the exception that left the last call, or "none"
    chunks,         \* the list analyze_and_chunk returned / convert_chunks was given
    result,         \* the string convert_chunks returned
    input,          \* how the input text was put together (never read by the program)
    fail_at,        \* the converter call that raises (0: the converter never raises)
    calls,          \* the contents handed to converter_func, in call order
    paren_args,     \* the arguments of a direct _find_matching_paren(sql, start) call
    paren_result,   \* what that call returned, or "unset"
    node,           \* the workflow node about to run, "END" or "idle"
    state,          \* the AgentState dictionary
    env,            \* the environment variables the workflow reads
    submitted,      \* the queries handed to BigQueryService.execute_query
    executed        \* the node calls made so far: the node, the SQL it was given, whether
                    \* it succeeded, the error it reported (for bigquery_error_fix: the
                    \* error message it put in the prompt)

chunkerVars ==
    <<sql_in, original_sql, max_len, max_lines, decision, pc, exc, chunks, result, input,
      fail_at, calls>>
parenVars == <<paren_args, paren_result>>
flowVars == <<node, state, env, submitted, executed>>

vars == <<chunkerVars, parenVars, flowVars>>

(***************************************************************************)
(* Characters and text primitives                                          *)
(***************************************************************************)
SQ == "'"
DQ == "\""
BS == "\\"
NL == "\n"
BT == "BACKTICK"   \* the backquote character, which a TLA+ string cannot hold

LowerSeq == <<"a","b","c","d","e","f","g","h","i","j","k","l","m",
              "n","o","p","q","r","s","t","u","v","w","x","y","z">>
UpperSeq == <<"A","B","C","D","E","F","G","H","I","J","K","L","M",
              "N","O","P","Q","R","S","T","U","V","W","X","Y","Z">>
Digits == {"0","1","2","3","4","5","6","7","8","9"}

Range(s) == {s[i] : i \in 1..Len(s)}
MinOf(S) == CHOOSE m \in S : \A n \in S : m <= n
MaxOf(S) == CHOOSE m \in S : \A n \in S : m >= n

\* str.upper() on one character
Upper(c) ==
    IF c \in Range(LowerSeq)
    THEN UpperSeq[CHOOSE i \in 1..26 : LowerSeq[i] = c]
    ELSE c
UpperStr(s) == [i \in 1..Len(s) |-> Upper(s[i])]

\* the regex classes \s and \w
IsSpace(c) == c \in {" ", NL, "\t", "\r"}
IsWord(c) == c \in Range(LowerSeq) \cup Range(UpperSeq) \cup Digits \cup {"_"}

\* str.strip()
Strip(s) ==
    LET idx == {i \in 1..Len(s) : ~IsSpace(s[i])}
    IN  IF idx = {} THEN <<>> ELSE SubSeq(s, MinOf(idx), MaxOf(idx))

\* the characters m..n of s (1-based, inclusive), the bounds clamped as a slice
\* clamps them
Sub(s, m, n) ==
    LET lo == IF m < 1 THEN 1 ELSE m
        hi == IF n > Len(s) THEN Len(s) ELSE n
    IN  IF lo > hi THEN <<>> ELSE SubSeq(s, lo, hi)

\* s[a:b] and s[a:] with the 0-based bounds of the source
Slice(s, a, b) == Sub(s, a + 1, b)
SliceFrom(s, a) == Sub(s, a + 1, Len(s))

\* s[i-1:].startswith(kw), i 1-based
StartsWithAt(s, i, kw) ==
    /\ i + Len(kw) - 1 <= Len(s)
    /\ \A j \in 1..Len(kw) : s[i + j - 1] = kw[j]
\* the same on s.upper(), or under re.IGNORECASE (kw in upper case)
StartsWithAtCI(s, i, kw) ==
    /\ i + Len(kw) - 1 <= Len(s)
    /\ \A j \in 1..Len(kw) : Upper(s[i + j - 1]) = kw[j]
\* kw in s
Contains(s, kw) == \E i \in 1..Len(s) : StartsWithAt(s, i, kw)
ContainsCI(s, kw) == \E i \in 1..Len(s) : StartsWithAtCI(s, i, kw)

\* the position after a greedy \s* (resp. \S*, \w*) starting at i (1-based)
SkipSpaces(s, i) ==
    IF i > Len(s) THEN i
    ELSE MinOf({j \in i..Len(s) + 1 : j > Len(s) \/ ~IsSpace(s[j])})
SkipNonSpaces(s, i) ==
    IF i > Len(s) THEN i
    ELSE MinOf({j \in i..Len(s) + 1 : j > Len(s) \/ IsSpace(s[j])})
SkipWord(s, i) ==
    IF i > Len(s) THEN i
    ELSE MinOf({j \in i..Len(s) + 1 : j > Len(s) \/ ~IsWord(s[j])})

\* the least index j >= i of s with s[j] \in cs, Len(s) + 1 when there is none
NextOf(s, i, cs) == MinOf({j \in i..Len(s) : s[j] \in cs} \cup {Len(s) + 1})

\* the character at the 1-based index p is not preceded by a backslash:
\* i == 0 or sql[i-1] != '\\' at the 0-based index i = p - 1
Unescaped(s, p) == p = 1 \/ s[p - 1] # BS

\* str.count(c)
Count(s, c) == Cardinality({i \in 1..Len(s) : s[i] = c})

\* str.split(c)
RECURSIVE SplitChar(_, _)
SplitChar(s, c) ==
    IF c \notin Range(s) THEN <<s>>
    ELSE LET j == MinOf({i \in 1..Len(s) : s[i] = c})
         IN  <<SubSeq(s, 1, j - 1)>> \o SplitChar(SubSeq(s, j + 1, Len(s)), c)

\* sep.join(parts)
RECURSIVE Join(_, _)
Join(sep, parts) ==
    IF parts = <<>> THEN <<>>
    ELSE IF Len(parts) = 1 THEN parts[1]
    ELSE parts[1] \o sep \o Join(sep, Tail(parts))

\* keywords
K_WITH == <<"W","I","T","H">>
K_AS == <<"A","S">>
K_SELECT == <<"S","E","L","E","C","T">>
K_INSERT == <<"I","N","S","E","R","T">>
K_OVERWRITE == <<"O","V","E","R","W","R","I","T","E">>
K_INTO == <<"I","N","T","O">>
K_TABLE == <<"T","A","B","L","E">>
K_ALTER == <<"A","L","T","E","R">>
K_VIEW == <<"V","I","E","W">>
K_CREATE == <<"C","R","E","A","T","E">>
K_USE == <<"U","S","E">>
K_UNION == <<"U","N","I","O","N">>
K_ALL == <<"A","L","L">>
K_UNION_ALL == K_UNION \o <<" ">> \o K_ALL
K_OR == <<"O","R">>
K_REPLACE == <<"R","E","P","L","A","C","E">>

(***************************************************************************)
(* SQLChunk                                                                *)
(***************************************************************************)
NoName == <<"<", "N", "o", "n", "e", ">">>   \* name = None

SQLChunk(t, c, n, i) == [chunk_type |-> t, content |-> c, name |-> n, index |-> i]

\* what a method hands back: a list, or the exception that left it
Returned(cs) == [exc |-> "none", chunks |-> cs]
Raised(e) == [exc |-> e, chunks |-> <<>>]

(***************************************************************************)
(* SQLChunker: statement detection and splitting                           *)
(***************************************************************************)
\* re.sub(q + "[^" + q + "]*" + q, q + q, s) from index i on: leftmost,
\* non-overlapping; j1 and j2 are the next two occurrences of q
RECURSIVE SubLiterals(_, _, _)
SubLiterals(s, q, i) ==
    LET j1 == NextOf(s, i, {q})
        j2 == NextOf(s, j1 + 1, {q})
    IN  IF j2 > Len(s) THEN Sub(s, i, Len(s))
        ELSE Sub(s, i, j1 - 1) \o <<q, q>> \o SubLiterals(s, q, j2 + 1)

_remove_string_literals(sql) == SubLiterals(SubLiterals(sql, SQ, 1), DQ, 1)

_has_multiple_statements(sql) ==
    LET clean == _remove_string_literals(sql)
        parts == SplitChar(clean, ";")
        statements == {k \in 1..Len(parts) : Strip(parts[k]) # <<>>}
    IN  Cardinality(statements) > 1

\* The loops below are the loops of the source, taken one stop at a time: a
\* stop is the next character at which the loop does more than pass over (or
\* collect) the character, given its state; the characters before the stop
\* are handled together.

\* the loop of _split_by_semicolon from character i on;
\* st = [statements, current, in_string, string_char]
RECURSIVE SplitLoop(_, _, _)
SplitLoop(sql, i, st) ==
    LET j == NextOf(sql, i, IF st.in_string THEN {st.string_char} ELSE {SQ, DQ, ";"})
        current == st.current \o Sub(sql, i, j - 1)
        stmt == Strip(current)
        flushed == IF stmt # <<>> THEN Append(st.statements, stmt) ELSE st.statements
    IN  IF j > Len(sql) THEN flushed
        ELSE IF st.in_string
        THEN \* char == string_char and in_string
             SplitLoop(sql, j + 1,
                 [statements |-> st.statements, current |-> Append(current, sql[j]),
                  in_string |-> FALSE, string_char |-> st.string_char])
        ELSE IF sql[j] \in {SQ, DQ}
        THEN \* char in ("'", '"') and not in_string
             SplitLoop(sql, j + 1,
                 [statements |-> st.statements, current |-> Append(current, sql[j]),
                  in_string |-> TRUE, string_char |-> sql[j]])
        ELSE \* char == ';' and not in_string
             SplitLoop(sql, j + 1,
                 [statements |-> flushed, current |-> <<>>,
                  in_string |-> FALSE, string_char |-> st.string_char])

_split_by_semicolon(sql) ==
    SplitLoop(sql, 1, [statements |-> <<>>, current |-> <<>>,
                       in_string |-> FALSE, string_char |-> "None"])

_detect_statement_type(sql) ==
    LET upper == Strip(UpperStr(sql))
    IN  IF StartsWithAt(upper, 1, K_WITH) THEN "cte_query"
        ELSE IF StartsWithAt(upper, 1, K_INSERT) THEN "insert"
        ELSE IF StartsWithAt(upper, 1, K_ALTER \o <<" ">> \o K_VIEW) THEN "alter_view"
        ELSE IF StartsWithAt(upper, 1, K_CREATE) THEN "create"
        ELSE IF StartsWithAt(upper, 1, K_SELECT) THEN "select"
        ELSE IF StartsWithAt(upper, 1, K_USE) THEN "use"
        ELSE "other"

\* the loop of _chunk_by_statements; enumerate() numbers every statement
RECURSIVE StatementChunks(_, _)
StatementChunks(statements, i) ==
    IF i > Len(statements) THEN <<>>
    ELSE LET stmt == Strip(statements[i])
         IN  (IF stmt # <<>>
              THEN <<SQLChunk(_detect_statement_type(stmt), stmt, NoName, i - 1)>>
              ELSE <<>>) \o StatementChunks(statements, i + 1)

_chunk_by_statements(sql) == Returned(StatementChunks(_split_by_semicolon(sql), 1))

_is_insert_select(sql) ==
    LET upper == Strip(UpperStr(sql))
    IN  StartsWithAt(upper, 1, K_INSERT) /\ Contains(upper, K_SELECT)

_is_alter_view(sql) ==
    LET upper == Strip(UpperStr(sql))
    IN  \/ StartsWithAt(upper, 1, K_ALTER \o <<" ">> \o K_VIEW)
        \/ StartsWithAt(upper, 1, K_ALTER \o <<NL>> \o K_VIEW)

\* re.match(r'\s*WITH\s+', sql, re.IGNORECASE)
_has_cte(sql) ==
    LET i == SkipSpaces(sql, 1)
    IN  /\ StartsWithAtCI(sql, i, K_WITH)
        /\ i + 4 <= Len(sql)
        /\ IsSpace(sql[i + 4])

(***************************************************************************)
(* SQLChunker: parentheses and CTEs                                        *)
(***************************************************************************)
\* the loop of _find_matching_paren from the 0-based index i on
RECURSIVE ParenLoop(_, _, _, _, _)
ParenLoop(sql, i, depth, in_string, string_char) ==
    LET stops == {p \in i + 1..Len(sql) :
                    IF in_string THEN sql[p] = string_char /\ Unescaped(sql, p)
                    ELSE \/ sql[p] \in {"(", ")"}
                         \/ sql[p] \in {SQ, DQ} /\ Unescaped(sql, p)}
    IN  IF stops = {} THEN -1
        ELSE LET p == MinOf(stops)
                 char == sql[p]
             IN  IF in_string THEN ParenLoop(sql, p, depth, FALSE, string_char)
                 ELSE IF char \in {SQ, DQ} THEN ParenLoop(sql, p, depth, TRUE, char)
                 ELSE IF char = "(" THEN ParenLoop(sql, p, depth + 1, in_string, string_char)
                 ELSE IF depth - 1 = 0 THEN p - 1
                 ELSE ParenLoop(sql, p, depth - 1, in_string, string_char)

\* a scan that counts the parentheses inside literals too
_find_matching_paren_in_literals(sql, start) ==
    LET balanced == {p \in start + 1..Len(sql) :
                        /\ sql[p] = ")"
                        /\ Cardinality({k \in start + 1..p : sql[k] = "("})
                             = Cardinality({k \in start + 1..p : sql[k] = ")"})}
    IN  IF balanced = {} THEN -1 ELSE MinOf(balanced) - 1

\* 0-based index of the matching parenthesis, or -1
_find_matching_paren(sql, start) == ParenLoop(sql, start, 0, FALSE, "None")

\* re.match(r'\s*(\w+)\s+AS\s*\(', remaining, re.IGNORECASE):
\* [ok, name, end] with end the 0-based match.end()
CteHeadMatch(remaining) ==
    LET i == SkipSpaces(remaining, 1)
        j == SkipWord(remaining, i)
        k == SkipSpaces(remaining, j)
        l == SkipSpaces(remaining, k + 2)
        ok == /\ j > i
              /\ k > j
              /\ StartsWithAtCI(remaining, k, K_AS)
              /\ l <= Len(remaining)
              /\ remaining[l] = "("
    IN  [ok |-> ok, name |-> Sub(remaining, i, j - 1), end |-> l]

\* the loop of _parse_cte_and_main
RECURSIVE ParseCteLoop(_, _)
ParseCteLoop(cte_blocks, remaining) ==
    LET match == CteHeadMatch(remaining)
    IN  IF ~match.ok THEN [cte_blocks |-> cte_blocks, remaining |-> remaining]
        ELSE LET start_paren == match.end - 1
                 end_paren == _find_matching_paren(remaining, start_paren)
             IN  IF end_paren < 0
                 THEN [cte_blocks |-> cte_blocks, remaining |-> remaining]
                 ELSE LET definition == Slice(remaining, start_paren, end_paren + 1)
                          blocks == Append(cte_blocks, <<match.name, definition>>)
                          rest == Strip(SliceFrom(remaining, end_paren + 1))
                      IN  IF StartsWithAt(rest, 1, <<",">>)
                          THEN ParseCteLoop(blocks, Strip(SliceFrom(rest, 1)))
                          ELSE [cte_blocks |-> blocks, remaining |-> rest]

\* never called by the source: _chunk_by_cte reads cte_blocks and main_query
\* without assigning them
_parse_cte_and_main(sql) ==
    LET r == ParseCteLoop(<<>>, sql)
    IN  [cte_blocks |-> r.cte_blocks, main_query |-> Strip(r.remaining)]

\* re.match(r'\s*WITH\s+(.*)', sql, re.IGNORECASE | re.DOTALL)
WithMatch(sql) ==
    LET i == SkipSpaces(sql, 1)
        j == SkipSpaces(sql, i + 4)
    IN  [ok |-> StartsWithAtCI(sql, i, K_WITH) /\ j > i + 4,
         after_with |-> Sub(sql, j, Len(sql))]

\* After a match, line 257 reads the local name cte_blocks, which no line
\* assigns: the method leaves with NameError on every such call.
_chunk_by_cte(sql) ==
    IF ~WithMatch(sql).ok
    THEN Returned(<<SQLChunk("main", sql, NoName, 0)>>)
    ELSE Raised("NameError")

(***************************************************************************)
(* SQLChunker: UNION                                                       *)
(***************************************************************************)
\* the loop of _remove_parentheses_content from character i on
RECURSIVE RemoveParenLoop(_, _, _, _, _)
RemoveParenLoop(sql, i, depth, in_string, string_char) ==
    LET j == NextOf(sql, i, IF in_string THEN {string_char} ELSE {SQ, DQ, "(", ")"})
        \* elif not in_string: ... elif depth == 0: result.append(char)
        passed == IF ~in_string /\ depth = 0 THEN Sub(sql, i, j - 1) ELSE <<>>
    IN  IF j > Len(sql) THEN passed
        ELSE LET char == sql[j]
             IN  IF in_string
                 THEN passed \o (IF depth = 0 THEN <<char>> ELSE <<>>)
                      \o RemoveParenLoop(sql, j + 1, depth, FALSE, string_char)
                 ELSE IF char \in {SQ, DQ}
                 THEN passed \o (IF depth = 0 THEN <<char>> ELSE <<>>)
                      \o RemoveParenLoop(sql, j + 1, depth, TRUE, char)
                 ELSE IF char = "("
                 THEN passed \o (IF depth + 1 = 1 THEN <<"(", ")">> ELSE <<>>)
                      \o RemoveParenLoop(sql, j + 1, depth + 1, in_string, string_char)
                 ELSE passed \o RemoveParenLoop(sql, j + 1, depth - 1, in_string, string_char)

_remove_parentheses_content(sql) == RemoveParenLoop(sql, 1, 0, FALSE, "None")

\* re.search(r'\bUNION\s+(?:ALL\s+)?', clean, re.IGNORECASE)
_has_union(sql) ==
    LET clean == _remove_parentheses_content(sql)
    IN  \E i \in 1..Len(clean) :
            /\ StartsWithAtCI(clean, i, K_UNION)
            /\ (i = 1 \/ ~IsWord(clean[i - 1]))
            /\ i + 5 <= Len(clean)
            /\ IsSpace(clean[i + 5])

\* the loop of _find_top_level_unions from the 0-based index i on;
\* a position is <<start, end, union_type>>
RECURSIVE UnionLoop(_, _, _, _, _)
UnionLoop(sql, i, depth, in_string, string_char) ==
    LET stops == {p \in i + 1..Len(sql) :
                    IF in_string THEN sql[p] = string_char /\ Unescaped(sql, p)
                    ELSE \/ sql[p] \in {"(", ")"}
                         \/ sql[p] \in {SQ, DQ} /\ Unescaped(sql, p)
                         \/ depth = 0 /\ StartsWithAtCI(sql, p, K_UNION)}
    IN  IF stops = {} THEN <<>>
        ELSE LET p == MinOf(stops)
                 char == sql[p]
             IN  IF in_string THEN UnionLoop(sql, p, depth, FALSE, string_char)
                 ELSE IF char \in {SQ, DQ} THEN UnionLoop(sql, p, depth, TRUE, char)
                 ELSE IF char = "(" THEN UnionLoop(sql, p, depth + 1, in_string, string_char)
                 ELSE IF char = ")" THEN UnionLoop(sql, p, depth - 1, in_string, string_char)
                 ELSE IF StartsWithAtCI(sql, p, K_UNION_ALL)
                 THEN <<<<p - 1, p - 1 + 10, "UNION ALL">>>>
                      \o UnionLoop(sql, p - 1 + 10, depth, in_string, string_char)
                 ELSE <<<<p - 1, p - 1 + 5, "UNION">>>>
                      \o UnionLoop(sql, p - 1 + 5, depth, in_string, string_char)

_find_top_level_unions(sql) == UnionLoop(sql, 0, 0, FALSE, "None")

\* the loop of _chunk_by_union over union_positions[i..]
RECURSIVE UnionChunkLoop(_, _, _, _, _)
UnionChunkLoop(sql, union_positions, i, prev_end, acc) ==
    IF i > Len(union_positions)
    THEN LET last_part == Strip(SliceFrom(sql, prev_end))
         IN  IF last_part # <<>>
             THEN Append(acc, SQLChunk("union_part", last_part, NoName, Len(acc)))
             ELSE acc
    ELSE LET start == union_positions[i][1]
             end == union_positions[i][2]
             part == Strip(Slice(sql, prev_end, start))
             chunk_type == IF i = 1 THEN "union_first" ELSE "union_part"
         IN  UnionChunkLoop(sql, union_positions, i + 1, end,
                 IF part # <<>>
                 THEN Append(acc, SQLChunk(chunk_type, part, NoName, Len(acc)))
                 ELSE acc)

_chunk_by_union(sql) ==
    LET union_positions == _find_top_level_unions(sql)
    IN  IF union_positions = <<>>
        THEN Returned(<<SQLChunk("main", sql, NoName, 0)>>)
        ELSE Returned(UnionChunkLoop(sql, union_positions, 1, 0, <<>>))

(***************************************************************************)
(* SQLChunker: INSERT ... SELECT and ALTER VIEW                            *)
(***************************************************************************)
\* The pieces of the regular expressions, matched at the 1-based position p
\* of s: each gives the position after its match, and 0 when it does not match
\* or when an earlier piece did not (p = 0).  No piece can give characters
\* back to the one after it (a keyword never starts with white space, white
\* space never starts a keyword or a \S+), so the greedy match is the only one.
\* kw\s+
KeywordSpaces(s, p, kw) ==
    IF p > 0 /\ StartsWithAtCI(s, p, kw) /\ SkipSpaces(s, p + Len(kw)) > p + Len(kw)
    THEN SkipSpaces(s, p + Len(kw))
    ELSE 0
\* (?:kw\s+)?
OptKeywordSpaces(s, p, kw) ==
    IF KeywordSpaces(s, p, kw) > 0 THEN KeywordSpaces(s, p, kw) ELSE p
\* \S+
NonSpaces(s, p) == IF p > 0 /\ SkipNonSpaces(s, p) > p THEN SkipNonSpaces(s, p) ELSE 0
\* \s+
Spaces(s, p) == IF p > 0 /\ SkipSpaces(s, p) > p THEN SkipSpaces(s, p) ELSE 0

\* a match whose group (\S+) runs from name_start to name_end (exclusive)
NameMatch(s, name_start) ==
    [ok |-> NonSpaces(s, name_start) > 0,
     name_start |-> name_start, name_end |-> NonSpaces(s, name_start)]

\* INSERT\s+(?:OVERWRITE\s+)?(?:INTO\s+)?TABLE\s+(\S+) matched at the start
InsertHeadMatch(sql) ==
    NameMatch(sql,
        KeywordSpaces(sql,
            OptKeywordSpaces(sql,
                OptKeywordSpaces(sql, KeywordSpaces(sql, 1, K_INSERT), K_OVERWRITE),
                K_INTO),
            K_TABLE))

\* group 1 ends before name_end and group 2, (?:WITH|SELECT).*, starts at body
InsertSelectGroups(sql, name_end, body) ==
    [ok |-> /\ body > 0
            /\ (StartsWithAtCI(sql, body, K_WITH) \/ StartsWithAtCI(sql, body, K_SELECT)),
     insert_part |-> Sub(sql, 1, name_end - 1),
     select_part |-> Sub(sql, body, Len(sql))]

InsertSelectAfter(sql, name_end) ==
    InsertSelectGroups(sql, name_end, Spaces(sql, name_end))

\* re.match(r'(INSERT\s+(?:OVERWRITE\s+)?(?:INTO\s+)?TABLE\s+\S+)\s+((?:WITH|SELECT).*)',
\*          sql, re.IGNORECASE | re.DOTALL)
InsertSelectMatch(sql) == InsertSelectAfter(sql, InsertHeadMatch(sql).name_end)

\* the slip of numbering the sub-fragments from 0, as enumerate() does
ReindexedFromZero(sub) == [i \in 1..Len(sub) |-> [sub[i] EXCEPT !.index = i - 1]]

\* for i, chunk in enumerate(sub): chunk.index = i + 1
Reindexed(sub) == [i \in 1..Len(sub) |-> [sub[i] EXCEPT !.index = i]]

\* the body of _chunk_insert_select, match the result of its re.match
InsertSelectChunks(sql, match) ==
    LET header == SQLChunk("insert_header", match.insert_part, NoName, 0)
    IN  IF match.ok
        THEN IF _has_cte(match.select_part)
             THEN LET cte_chunks == _chunk_by_cte(match.select_part)
                  IN  IF cte_chunks.exc # "none" THEN cte_chunks
                      ELSE Returned(<<header>> \o Reindexed(cte_chunks.chunks))
             ELSE IF _has_union(match.select_part)
             THEN LET union_chunks == _chunk_by_union(match.select_part)
                  IN  Returned(<<header>> \o Reindexed(union_chunks.chunks))
             ELSE Returned(<<header, SQLChunk("select", match.select_part, NoName, 1)>>)
        ELSE Returned(<<SQLChunk("insert", sql, NoName, 0)>>)

_chunk_insert_select(sql) == InsertSelectChunks(sql, InsertSelectMatch(sql))

\* the match ends after the AS at as_at: [ok, name_start, name_end, end]
\* (1-based, the ends exclusive)
AlterHeadGroups(sql, name, as_at) ==
    [ok |-> as_at > 0 /\ StartsWithAtCI(sql, as_at, K_AS),
     name_start |-> name.name_start, name_end |-> name.name_end, end |-> as_at + 2]

AlterHeadNamed(sql, name) == AlterHeadGroups(sql, name, Spaces(sql, name.name_end))

\* ALTER\s+VIEW\s+(\S+)\s+AS matched at the start
AlterHeadMatch(sql) ==
    AlterHeadNamed(sql,
        NameMatch(sql, KeywordSpaces(sql, KeywordSpaces(sql, 1, K_ALTER), K_VIEW)))

\* group 1 ends before end and group 2, SELECT.*, starts at body
AlterViewGroups(sql, head, body) ==
    [ok |-> head.ok /\ body > 0 /\ StartsWithAtCI(sql, body, K_SELECT),
     alter_part |-> Sub(sql, 1, head.end - 1),
     select_part |-> Sub(sql, body, Len(sql))]

AlterViewAfter(sql, head) ==
    AlterViewGroups(sql, head, IF head.ok THEN Spaces(sql, head.end) ELSE 0)

\* re.match(r'(ALTER\s+VIEW\s+\S+\s+AS)\s+(SELECT.*)', sql, re.IGNORECASE | re.DOTALL)
AlterViewMatch(sql) == AlterViewAfter(sql, AlterHeadMatch(sql))

\* the body of _chunk_alter_view, match the result of its re.match
AlterViewChunks(sql, match) ==
    IF match.ok
    THEN Returned(<<SQLChunk("alter_view_header", match.alter_part, NoName, 0),
                    SQLChunk("select", match.select_part, NoName, 1)>>)
    ELSE Returned(<<SQLChunk("alter_view", sql, NoName, 0)>>)

_chunk_alter_view(sql) == AlterViewChunks(sql, AlterViewMatch(sql))

(***************************************************************************)
(* SQLChunker.should_chunk and SQLChunker.analyze_and_chunk                *)
(***************************************************************************)
\* the slip of comparing with >= where the source compares with >
should_chunk_inclusive(sql, maxLength, maxLines) ==
    Len(sql) >= maxLength \/ Count(sql, NL) >= maxLines

should_chunk(sql, maxLength, maxLines) ==
    Len(sql) > maxLength \/ Count(sql, NL) > maxLines

analyze_and_chunk(sql) ==
    IF _has_multiple_statements(sql) THEN _chunk_by_statements(sql)
    ELSE IF _is_insert_select(sql) THEN _chunk_insert_select(sql)
    ELSE IF _is_alter_view(sql) THEN _chunk_alter_view(sql)
    ELSE IF _has_cte(sql) THEN _chunk_by_cte(sql)
    ELSE IF _has_union(sql) THEN _chunk_by_union(sql)
    ELSE Returned(<<SQLChunk("main", sql, NoName, 0)>>)

(***************************************************************************)
(* ChunkedConverter                                                        *)
(***************************************************************************)
\* str.strip('`')
StripBackticks(s) ==
    LET idx == {i \in 1..Len(s) : s[i] # BT}
    IN  IF idx = {} THEN <<>> ELSE SubSeq(s, MinOf(idx), MaxOf(idx))

CreateOrReplace(kind, name) ==
    K_CREATE \o <<" ">> \o K_OR \o <<" ">> \o K_REPLACE \o <<" ">> \o kind
        \o <<" ", BT>> \o name \o <<BT, " ">> \o K_AS

\* the header rewritten from a match of its regular expression, kept when
\* there is no match
HeaderConverted(header_sql, match, kind) ==
    IF match.ok
    THEN CreateOrReplace(kind,
             StripBackticks(Sub(header_sql, match.name_start, match.name_end - 1)))
    ELSE header_sql

_convert_insert_header(insert_sql) ==
    HeaderConverted(insert_sql, InsertHeadMatch(insert_sql), K_TABLE)

_convert_alter_view_header(alter_sql) ==
    HeaderConverted(alter_sql, AlterHeadMatch(alter_sql), K_VIEW)

\* the converter function handed to ChunkedConverter: the identity translation
converter_func(content) == content

\* the dictionary convert_chunks appends for a chunk
ConvertedPart(chunk, converted) ==
    [type |-> chunk.chunk_type, name |-> chunk.name,
     content |-> converted, index |-> chunk.index]

\* a loop that catches what the converter raises and goes on
WithPartCaught(r, part, called) ==
    [exc |-> "none", parts |-> <<part>> \o r.parts, calls |-> called \o r.calls]

\* what the rest of the loop produced, after one more part and one more call
WithPart(r, part, called) ==
    [exc |-> r.exc, parts |-> <<part>> \o r.parts, calls |-> called \o r.calls]

\* the loop of convert_chunks from chunk i on, ncalls converter calls having
\* been made; the call numbered failAt raises and nothing catches it
RECURSIVE ConvertRun(_, _, _, _)
ConvertRun(cs, i, failAt, ncalls) ==
    IF i > Len(cs) THEN [exc |-> "none", parts |-> <<>>, calls |-> <<>>]
    ELSE IF cs[i].chunk_type = "insert_header"
    THEN WithPart(ConvertRun(cs, i + 1, failAt, ncalls),
                  ConvertedPart(cs[i], _convert_insert_header(cs[i].content)), <<>>)
    ELSE IF cs[i].chunk_type = "alter_view_header"
    THEN WithPart(ConvertRun(cs, i + 1, failAt, ncalls),
                  ConvertedPart(cs[i], _convert_alter_view_header(cs[i].content)), <<>>)
    ELSE IF cs[i].chunk_type = "use"
    THEN ConvertRun(cs, i + 1, failAt, ncalls)
    ELSE IF ncalls + 1 = failAt
    THEN [exc |-> "ConverterError", parts |-> <<>>, calls |-> <<cs[i].content>>]
    ELSE WithPart(ConvertRun(cs, i + 1, failAt, ncalls + 1),
                  ConvertedPart(cs[i], converter_func(cs[i].content)), <<cs[i].content>>)

\* the parts of the loop when the converter never raises
ConvertLoop(cs, i) == ConvertRun(cs, i, 0, 0).parts

\* sorted(parts, key=index): a stable insertion sort
RECURSIVE InsertByIndex(_, _)
InsertByIndex(sorted, part) ==
    IF sorted = <<>> THEN <<part>>
    ELSE IF sorted[Len(sorted)].index <= part.index THEN Append(sorted, part)
    ELSE Append(InsertByIndex(SubSeq(sorted, 1, Len(sorted) - 1), part), sorted[Len(sorted)])

RECURSIVE SortedByIndex(_)
SortedByIndex(parts) ==
    IF parts = <<>> THEN <<>>
    ELSE InsertByIndex(SortedByIndex(SubSeq(parts, 1, Len(parts) - 1)), parts[Len(parts)])

\* the tests of the loop over the sorted parts
IsHeaderPart(part) == part.type \in {"insert_header", "alter_view_header"}
IsCtePart(part) == part.type = "cte"
\* a loop whose last branch drops the part instead of appending it
IsMainPartOfKnownKind(part) ==
    part.type \in {"main", "select", "cte_query", "union_first", "union_part", "statement"}
IsMainPart(part) == ~IsHeaderPart(part) /\ ~IsCtePart(part)

\* result_parts.insert(0, content) puts a later header before an earlier one
RECURSIVE Reversed(_)
Reversed(s) == IF s = <<>> THEN <<>> ELSE Append(Reversed(Tail(s)), Head(s))

\* p['type'].startswith('union'), over the kinds the chunker produces
TypeStartsWithUnion(type) == type \in {"union_first", "union_part"}

MainText(part) ==
    IF part.type = "statement" THEN Append(Strip(part.content), ";")
    ELSE Strip(part.content)

\* how an f-string shows the name: None is shown as the word None
FormatName(name) == IF name = NoName THEN <<"N", "o", "n", "e">> ELSE name

\* a CTE block in which every line starts with WITH
CteTextAlwaysWith(cte_parts, i) ==
    K_WITH \o <<" ">>
        \o FormatName(cte_parts[i].name) \o <<" ">> \o K_AS \o <<" ">> \o Strip(cte_parts[i].content)

CteText(cte_parts, i) ==
    (IF i = 1 THEN K_WITH \o <<" ">> ELSE <<",", " ">>)
        \o FormatName(cte_parts[i].name) \o <<" ">> \o K_AS \o <<" ">> \o Strip(cte_parts[i].content)

\* _merge_parts from the sort on: the blocks of two or more parts
MergeSorted(parts) ==
    LET headers == SelectSeq(parts, IsHeaderPart)
        cte_parts == SelectSeq(parts, IsCtePart)
        mains == SelectSeq(parts, IsMainPart)
        header_strs == Reversed([i \in 1..Len(headers) |-> Strip(headers[i].content)])
        cte_strs == [i \in 1..Len(cte_parts) |-> CteText(cte_parts, i)]
        main_parts == [i \in 1..Len(mains) |-> MainText(mains[i])]
        has_union == \E i \in 1..Len(parts) : TypeStartsWithUnion(parts[i].type)
        union_sep == <<NL>> \o K_UNION_ALL \o <<NL>>
        result_parts ==
            header_strs
            \o (IF cte_parts # <<>> THEN <<Join(<<NL>>, cte_strs)>> ELSE <<>>)
            \o (IF main_parts # <<>>
                THEN <<Join(IF has_union THEN union_sep ELSE <<NL>>, main_parts)>>
                ELSE <<>>)
    IN  Join(<<NL>>, result_parts)

\* a reassembler without the short cut for a single part
_merge_parts_without_short_cut(parts0) ==
    IF parts0 = <<>> THEN <<>>
    ELSE MergeSorted(SortedByIndex(parts0))

_merge_parts(parts0) ==
    IF parts0 = <<>> THEN <<>>
    ELSE IF Len(parts0) = 1 THEN parts0[1].content
    ELSE MergeSorted(SortedByIndex(parts0))

convert_chunks(cs) == _merge_parts(ConvertLoop(cs, 1))

(***************************************************************************)
(* Input texts                                                             *)
(***************************************************************************)
S_SELECT_1 == <<"S", "E", "L", "E", "C", "T", " ", "1">>
S_SELECT_2 == <<"S", "E", "L", "E", "C", "T", " ", "2">>
S_USE_D == <<"U", "S", "E", " ", "d">>
S_SELECT_SEMI_LIT == <<"S", "E", "L", "E", "C", "T", " ", SQ, ";", SQ>>
S_SET_X == <<"S", "E", "T", " ", "x">>
S_USE_OPEN_LIT == <<"U", "S", "E", " ", "d", SQ>>
S_SEP_SEMI_SP == <<";", " ">>
S_SEP_SEMI_NL == <<";", NL>>
S_NAME_A == <<"a">>
S_NAME_B == <<"b", "_", "2">>
S_DEF_SELECT_1 == <<"(", "S", "E", "L", "E", "C", "T", " ", "1", ")">>
S_DEF_PAREN_LIT == <<"(", "S", "E", "L", "E", "C", "T", " ", SQ, ")", SQ, ")">>
S_DEF_NESTED == <<"(", "S", "E", "L", "E", "C", "T", " ", "(", "2", ")", ")">>
S_MAIN_FROM_A == <<"S", "E", "L", "E", "C", "T", " ", "*", " ", "F", "R", "O", "M", " ", "a">>
S_MAIN_UNION == <<"S", "E", "L", "E", "C", "T", " ", "1", " ", "U", "N", "I", "O", "N", " ", "S", "E", "L", "E", "C", "T", " ", "2">>
S_BAD_ALIAS == <<"W", "I", "T", "H", " ", "1", "+", " ", "A", "S", " ", "(", "S", "E", "L", "E", "C", "T", " ", "1", ")", " ", "S", "E", "L", "E", "C", "T", " ", "2">>
S_BAD_NO_AS == <<"W", "I", "T", "H", " ", "a", " ", "(", "S", "E", "L", "E", "C", "T", " ", "1", ")", " ", "S", "E", "L", "E", "C", "T", " ", "2">>
S_BAD_OPEN == <<"W", "I", "T", "H", " ", "a", " ", "A", "S", " ", "(", "S", "E", "L", "E", "C", "T", " ", "1", " ", "S", "E", "L", "E", "C", "T", " ", "2">>
S_BAD_LOWER == <<"w", "i", "t", "h", " ", "a">>
S_BR_PAREN == <<"(", "S", "E", "L", "E", "C", "T", " ", "2", ")">>
S_BR_LIT == <<"S", "E", "L", "E", "C", "T", " ", SQ, "U", "N", "I", "O", "N", " ", SQ, " ", "c">>
S_U_UNION == <<" ", "U", "N", "I", "O", "N", " ">>
S_U_UNION_ALL == <<" ", "U", "N", "I", "O", "N", " ", "A", "L", "L", " ">>
S_U_LOWER_NL == <<NL, "u", "n", "i", "o", "n", " ", "a", "l", "l", NL>>
S_U_TWO_SPACES == <<" ", "U", "N", "I", "O", "N", " ", " ", "A", "L", "L", " ">>
S_U_TIGHT == <<" ", "U", "N", "I", "O", "N", " ", "A", "L", "L">>
S_U_NL_ALL == <<" ", "U", "N", "I", "O", "N", NL, "A", "L", "L", " ">>
S_H_INTO == <<"I", "N", "S", "E", "R", "T", " ", "I", "N", "T", "O", " ", "T", "A", "B", "L", "E", " ", "t">>
S_H_OVERWRITE == <<"I", "N", "S", "E", "R", "T", " ", "O", "V", "E", "R", "W", "R", "I", "T", "E", " ", "T", "A", "B", "L", "E", " ", BT, "d", "b", ".", "t", BT>>
S_H_LOWER == <<"i", "n", "s", "e", "r", "t", " ", "o", "v", "e", "r", "w", "r", "i", "t", "e", " ", "i", "n", "t", "o", " ", "t", "a", "b", "l", "e", " ", "T", "1">>
S_H_NO_TABLE == <<"I", "N", "S", "E", "R", "T", " ", "I", "N", "T", "O", " ", "t">>
S_B_FROM_SRC == <<"S", "E", "L", "E", "C", "T", " ", "*", " ", "F", "R", "O", "M", " ", "s", "r", "c">>
S_B_SUBQUERY_UNION == <<"S", "E", "L", "E", "C", "T", " ", "(", "S", "E", "L", "E", "C", "T", " ", "1", " ", "U", "N", "I", "O", "N", " ", "S", "E", "L", "E", "C", "T", " ", "2", ")", " ", "x">>
S_B_LIT_UNION == <<"s", "e", "l", "e", "c", "t", " ", SQ, "a", " ", "U", "N", "I", "O", "N", " ", "b", SQ>>
S_B_ESCAPED_LIT == <<"S", "E", "L", "E", "C", "T", " ", SQ, BS, SQ, " ", "U", "N", "I", "O", "N", " ", SQ>>
S_B_ESCAPED_SEMI == <<"S", "E", "L", "E", "C", "T", " ", SQ, "a", BS, SQ, ";", "b", SQ>>
S_B_WITH == <<"W", "I", "T", "H", " ", "a", " ", "A", "S", " ", "(", "S", "E", "L", "E", "C", "T", " ", "1", ")", " ", "S", "E", "L", "E", "C", "T", " ", "2">>
S_B_UNION == <<"S", "E", "L", "E", "C", "T", " ", "1", " ", "U", "N", "I", "O", "N", " ", "A", "L", "L", " ", "S", "E", "L", "E", "C", "T", " ", "2">>
S_AV_PLAIN == <<"A", "L", "T", "E", "R", " ", "V", "I", "E", "W", " ", "v", " ", "A", "S", " ", "S", "E", "L", "E", "C", "T", " ", "1">>
S_AV_UNION == <<"A", "L", "T", "E", "R", " ", "V", "I", "E", "W", " ", BT, "v", BT, " ", "A", "S", NL, "S", "E", "L", "E", "C", "T", " ", "1", " ", "U", "N", "I", "O", "N", " ", "S", "E", "L", "E", "C", "T", " ", "2">>
S_AV_BAD == <<"A", "L", "T", "E", "R", " ", "V", "I", "E", "W", " ", "v", " ", "S", "E", "L", "E", "C", "T", " ", "1">>
S_AV_NL == <<"a", "l", "t", "e", "r", NL, "v", "i", "e", "w", " ", "v", " ", "a", "s", " ", "s", "e", "l", "e", "c", "t", " ", "1">>
S_AV_SUBQUERY_CTE == <<"A", "L", "T", "E", "R", " ", "V", "I", "E", "W", " ", "v", " ", "A", "S", " ", "S", "E", "L", "E", "C", "T", " ", "*", " ", "F", "R", "O", "M", " ", "(", "W", "I", "T", "H", " ", "a", " ", "A", "S", " ", "(", "S", "E", "L", "E", "C", "T", " ", "1", ")", " ", "S", "E", "L", "E", "C", "T", " ", "2", ")">>
S_AV_WITH == <<"A", "L", "T", "E", "R", " ", "V", "I", "E", "W", " ", "v", " ", "A", "S", " ", "W", "I", "T", "H", " ", "a", " ", "A", "S", " ", "(", "S", "E", "L", "E", "C", "T", " ", "1", ")", " ", "S", "E", "L", "E", "C", "T", " ", "2">>
S_AV_ESCAPED_SEMI == <<"A", "L", "T", "E", "R", " ", "V", "I", "E", "W", " ", "v", " ", "A", "S", " ", "S", "E", "L", "E", "C", "T", " ", SQ, "a", BS, SQ, ";", "b", SQ>>
S_E_DQ == <<"S", "E", "L", "E", "C", "T", " ", DQ, "x", " ", "U", "N", "I", "O", "N", " ", "y", DQ>>
S_E_TWO_LITS == <<"S", "E", "L", "E", "C", "T", " ", SQ, BS, SQ, BS, BS, SQ, ",", " ", SQ, " ", "U", "N", "I", "O", "N", " ", SQ>>
S_I_UNION_ID == <<"S", "E", "L", "E", "C", "T", " ", "u", "n", "i", "o", "n", "_", "i", "d", " ", "F", "R", "O", "M", " ", "t">>
S_I_REUNION == <<"S", "E", "L", "E", "C", "T", " ", "r", "e", "u", "n", "i", "o", "n", " ", "F", "R", "O", "M", " ", "t", " ", "U", "N", "I", "O", "N", " ", "S", "E", "L", "E", "C", "T", " ", "2">>
S_I_UNION_ID_ALL == <<"S", "E", "L", "E", "C", "T", " ", "u", "n", "i", "o", "n", "_", "i", "d", " ", "F", "R", "O", "M", " ", "t", " ", "U", "N", "I", "O", "N", " ", "A", "L", "L", " ", "S", "E", "L", "E", "C", "T", " ", "2">>

\* bounds of the input families
MaxStmts == 2      \* statements in a script
MaxCtes == 2       \* CTE definitions after WITH
MaxUnions == 2     \* UNION keywords in a statement
MaxPieces == 4     \* pieces in a free text
MaxPad == 3        \* the configured MAX_SQL_LENGTH the padded texts are built around

\* program constants: the defaults of MAX_SQL_LENGTH and MAX_SQL_LINES
DefaultMaxSqlLength == 8000
DefaultMaxSqlLines == 200

SeqsOf(S, lo, hi) == UNION {[1..k -> S] : k \in lo..hi}

RECURSIVE Concat(_)
Concat(ss) == IF ss = <<>> THEN <<>> ELSE Head(ss) \o Concat(Tail(ss))

\* scripts of statements separated by semicolons
StatementInputs ==
    [family : {"statements"},
     stmts : SeqsOf({S_SELECT_1, S_SELECT_2, S_USE_D, S_SELECT_SEMI_LIT, S_SET_X,
                     S_USE_OPEN_LIT}, 1, MaxStmts),
     sep : {S_SEP_SEMI_SP, S_SEP_SEMI_NL},
     trail : {<<>>, <<";">>}]

\* WITH name AS (...), ... main
CteInputs ==
    UNION {[family : {"cte"},
            names : [1..k -> {S_NAME_A, S_NAME_B}],
            defs : [1..k -> {S_DEF_SELECT_1, S_DEF_PAREN_LIT, S_DEF_NESTED}],
            main : {S_MAIN_FROM_A, S_MAIN_UNION}] : k \in 1..MaxCtes}

\* WITH followed by no parsable CTE block
MalformedInputs ==
    [family : {"malformed"}, text : {S_BAD_ALIAS, S_BAD_NO_AS, S_BAD_OPEN, S_BAD_LOWER}]

\* branches separated by top-level UNION / UNION ALL: a first branch, then
\* separator and branch, MaxUnions times at most
UnionTails ==
    {[sep |-> S_U_UNION, branch |-> S_SELECT_1],
     [sep |-> S_U_UNION_ALL, branch |-> S_SELECT_1],
     [sep |-> S_U_LOWER_NL, branch |-> S_BR_LIT],
     [sep |-> S_U_TWO_SPACES, branch |-> S_SELECT_1],
     [sep |-> S_U_NL_ALL, branch |-> S_SELECT_1],
     [sep |-> S_U_TIGHT, branch |-> S_BR_PAREN],
     [sep |-> S_U_UNION, branch |-> S_BR_PAREN]}
UnionInputs ==
    UNION {[family : {"union"},
            first : {S_SELECT_1, S_BR_LIT},
            tails : [1..k -> UnionTails]] : k \in 1..MaxUnions}

\* INSERT header, white space, body
TableHeaders == {S_H_INTO, S_H_OVERWRITE, S_H_LOWER}
\* bodies with no leading WITH and no UNION outside parentheses and literals
PlainBodies ==
    {S_B_FROM_SRC, S_B_SUBQUERY_UNION, S_B_LIT_UNION, S_B_ESCAPED_LIT, S_B_ESCAPED_SEMI}
InsertInputs ==
    [family : {"insert"},
     header : TableHeaders \cup {S_H_NO_TABLE},
     gap : {<<" ">>, <<NL, " ">>},
     body : PlainBodies \cup {S_B_WITH, S_B_UNION}]

AlterInputs ==
    [family : {"alter"},
     text : {S_AV_PLAIN, S_AV_UNION, S_AV_BAD, S_AV_NL, S_AV_SUBQUERY_CTE, S_AV_WITH,
             S_AV_ESCAPED_SEMI}]

\* statements whose only UNION stands inside parentheses or inside a literal
EnclosedUnionInputs ==
    [family : {"enclosed"},
     text : {S_B_SUBQUERY_UNION, S_B_LIT_UNION, S_B_ESCAPED_LIT, S_E_DQ, S_E_TWO_LITS}]

\* statements with an identifier that contains the letters of UNION
IdentifierInputs ==
    [family : {"identifier"}, text : {S_I_UNION_ID, S_I_REUNION, S_I_UNION_ID_ALL}]

\* any text made of a few pieces that matter to the literal scanners
Pieces == {<<SQ>>, <<DQ>>, <<BS>>, <<";">>, <<"a">>}

PieceInputs ==
    [family : {"pieces"}, pieces : SeqsOf(Pieces, 0, MaxPieces)]

\* padded texts around configured thresholds: lead and trail are white space
\* around a body of len characters, lines of them newlines
ThresholdInputs ==
    [family : {"threshold"},
     len : 1..MaxPad + 2,
     lines : 0..MaxPad,
     lead : {<<>>, <<NL>>},
     trail : {<<>>, <<" ">>, <<NL>>}]

Padded(len, lines) ==
    [i \in 1..len |-> IF 2 <= i /\ i <= lines + 1 /\ i < len THEN NL ELSE "x"]

Build(inp) ==
    CASE inp.family = "statements" -> Join(inp.sep, inp.stmts) \o inp.trail
      [] inp.family = "cte" ->
            K_WITH \o <<" ">>
            \o Join(<<",", " ">>,
                    [i \in 1..Len(inp.names) |->
                        inp.names[i] \o <<" ">> \o K_AS \o <<" ">> \o inp.defs[i]])
            \o <<" ">> \o inp.main
      [] inp.family = "union" ->
            inp.first
            \o Concat([i \in 1..Len(inp.tails) |-> inp.tails[i].sep \o inp.tails[i].branch])
      [] inp.family = "insert" -> inp.header \o inp.gap \o inp.body
      [] inp.family = "pieces" -> Concat(inp.pieces)
      [] inp.family = "threshold" -> inp.lead \o Padded(inp.len, inp.lines) \o inp.trail
      [] OTHER -> inp.text

Inputs ==
    StatementInputs \cup CteInputs \cup MalformedInputs \cup UnionInputs
        \cup InsertInputs \cup AlterInputs \cup PieceInputs \cup ThresholdInputs
        \cup EnclosedUnionInputs \cup IdentifierInputs

(***************************************************************************)
(* The state machine: one SQLChunker object and the calls made on it       *)
(***************************************************************************)
\* no direct _find_matching_paren call, no workflow run
ParenIdle == paren_args = [sql |-> <<>>, start |-> 0] /\ paren_result = <<>>
FlowIdle ==
    /\ node = "idle"
    /\ state = [retry_count |-> 0]
    /\ env = [read |-> FALSE]
    /\ submitted = <<>>
    /\ executed = <<>>

\* SQLChunker(sql), with the thresholds the module read from the environment
Init ==
    /\ input \in Inputs
    /\ sql_in = Build(input)
    /\ original_sql = Strip(sql_in)
    /\ IF input.family = "threshold"
       THEN /\ max_len \in {MaxPad, DefaultMaxSqlLength}
            /\ max_lines \in {MaxPad - 1, DefaultMaxSqlLines}
       ELSE max_len = DefaultMaxSqlLength /\ max_lines = DefaultMaxSqlLines
    /\ decision = "unset"
    /\ pc = "new"
    /\ exc = "none"
    /\ chunks = <<>>
    /\ result = <<>>
    /\ fail_at = 0
    /\ calls = <<>>
    /\ ParenIdle
    /\ FlowIdle

ShouldChunk ==
    /\ decision = "unset"
    /\ decision' = IF should_chunk(original_sql, max_len, max_lines) THEN "yes" ELSE "no"
    /\ UNCHANGED <<sql_in, original_sql, max_len, max_lines, pc, exc, chunks, result, input,
                   fail_at, calls, parenVars, flowVars>>

AnalyzeAndChunk ==
    /\ pc = "new"
    /\ LET r == analyze_and_chunk(original_sql)
       IN  /\ pc' = IF r.exc = "none" THEN "chunked" ELSE "raised"
           /\ exc' = r.exc
           /\ chunks' = r.chunks
    /\ UNCHANGED <<sql_in, original_sql, max_len, max_lines, decision, result, input,
                   fail_at, calls, parenVars, flowVars>>

\* a driver that sorts the chunks by index before it loops over them
ConvertChunksInIndexOrder ==
    /\ pc = "chunked"
    /\ LET r == ConvertRun(SortedByIndex(chunks), 1, fail_at, 0)
       IN  /\ calls' = r.calls
           /\ exc' = r.exc
           /\ pc' = IF r.exc = "none" THEN "merged" ELSE "convert_raised"
           /\ result' = IF r.exc = "none" THEN _merge_parts(r.parts) ELSE result
    /\ UNCHANGED <<sql_in, original_sql, max_len, max_lines, decision, chunks, input,
                   fail_at, parenVars, flowVars>>

\* ChunkedConverter(converter_func).convert_chunks(chunks): the loop, then
\* _merge_parts unless an exception left the loop
ConvertChunks ==
    /\ pc = "chunked"
    /\ LET r == ConvertRun(chunks, 1, fail_at, 0)
       IN  /\ calls' = r.calls
           /\ exc' = r.exc
           /\ pc' = IF r.exc = "none" THEN "merged" ELSE "convert_raised"
           /\ result' = IF r.exc = "none" THEN _merge_parts(r.parts) ELSE result
    /\ UNCHANGED <<sql_in, original_sql, max_len, max_lines, decision, chunks, input,
                   fail_at, parenVars, flowVars>>

Next == ShouldChunk \/ AnalyzeAndChunk \/ ConvertChunks

Spec == Init /\ [][Next]_vars

(***************************************************************************)
(* _find_matching_paren called directly, on short texts                    *)
(***************************************************************************)
MaxParenLen == 5    \* characters of a generated text
MaxNest == 3        \* nesting depth of the nested texts

ParenChars == {"(", ")", SQ, DQ, BS, "a"}

\* n opening parentheses followed by n closing ones
Nested(n) == [i \in 1..2 * n |-> IF i <= n THEN "(" ELSE ")"]

S_PAREN_LIT == <<"(", "a", " ", SQ, ")", SQ, " ", "b", ")">>
S_PAREN_ESCAPED == <<"(", SQ, BS, SQ, ")", SQ, ")">>

ParenTexts ==
    SeqsOf(ParenChars, 1, MaxParenLen) \cup {Nested(n) : n \in 1..MaxNest}
        \cup {S_PAREN_LIT, S_PAREN_ESCAPED}

\* the calls made on text t with start at an opening parenthesis (0-based),
\* as _parse_cte_and_main makes them
ParenArgs(t) ==
    {[sql |-> t, start |-> p - 1] : p \in {q \in 1..Len(t) : t[q] = "("}}

\* no SQLChunker call in progress
ChunkerIdle ==
    /\ sql_in = <<>>
    /\ original_sql = <<>>
    /\ max_len = DefaultMaxSqlLength
    /\ max_lines = DefaultMaxSqlLines
    /\ decision = "idle"
    /\ pc = "idle"
    /\ exc = "none"
    /\ chunks = <<>>
    /\ result = <<>>
    /\ input = [family |-> "none"]
    /\ fail_at = 0
    /\ calls = <<>>

InitParen ==
    /\ \E t \in ParenTexts : paren_args \in ParenArgs(t)
    /\ paren_result = <<>>
    /\ ChunkerIdle
    /\ FlowIdle

FindMatchingParen ==
    /\ paren_result = <<>>
    /\ paren_result' = <<_find_matching_paren(paren_args.sql, paren_args.start)>>
    /\ UNCHANGED <<paren_args, chunkerVars, flowVars>>

NextParen == FindMatchingParen

SpecParen == InitParen /\ [][NextParen]_vars

(***************************************************************************)
(* convert_chunks called directly, on any list of chunks, with a converter *)
(* that may raise                                                          *)
(***************************************************************************)
MaxChunks == 3      \* chunks of a list handed to convert_chunks

ChunkKinds ==
    {"insert_header", "alter_view_header", "cte", "main", "union_part", "statement",
     "use", "weird"}

Letters == <<"a", "b", "c", "d", "e">>

\* a list of chunks: its kinds, how its indexes run along the list and
\* whether its contents carry white space around them
ChunkListInputs ==
    [family : {"chunks"},
     kinds : SeqsOf(ChunkKinds, 0, MaxChunks),
     order : {"ascending", "descending", "equal"},
     text : {"plain", "padded"}]

ChunkContent(kind, text, i) ==
    IF text = "padded" THEN <<" ", Letters[i], NL>>
    ELSE IF kind = "insert_header" THEN S_H_INTO
    ELSE IF kind = "alter_view_header" THEN S_AV_PLAIN
    ELSE <<Letters[i]>>

ChunkName(kind, text, i) ==
    IF kind = "cte" /\ text = "plain" THEN <<"n", Letters[i]>> ELSE NoName

ChunkIndex(order, n, i) ==
    IF order = "ascending" THEN i - 1
    ELSE IF order = "descending" THEN n - i
    ELSE 0

BuildChunks(inp) ==
    [i \in 1..Len(inp.kinds) |->
        SQLChunk(inp.kinds[i], ChunkContent(inp.kinds[i], inp.text, i),
                 ChunkName(inp.kinds[i], inp.text, i),
                 ChunkIndex(inp.order, Len(inp.kinds), i))]

\* ChunkedConverter(converter_func).convert_chunks(chunks) about to be called
InitConvert ==
    /\ input \in ChunkListInputs
    /\ chunks = BuildChunks(input)
    /\ fail_at \in 0..MaxChunks
    /\ pc = "chunked"
    /\ sql_in = <<>>
    /\ original_sql = <<>>
    /\ max_len = DefaultMaxSqlLength
    /\ max_lines = DefaultMaxSqlLines
    /\ decision = "idle"
    /\ exc = "none"
    /\ result = <<>>
    /\ calls = <<>>
    /\ ParenIdle
    /\ FlowIdle

NextConvert == ConvertChunks

SpecConvert == InitConvert /\ [][NextConvert]_vars

\* both ways of using the module, with a converter that returns: a text that
\* is chunked and then converted, or a list of chunks handed to convert_chunks
InitChunkOrConvert == Init \/ (InitConvert /\ fail_at = 0)

SpecChunkOrConvert == InitChunkOrConvert /\ [][Next]_vars

(***************************************************************************)
(* The conversion workflow (src/src/agent/graph.py and its nodes).  A SQL  *)
(* text is kept as what the nodes do with it: how many times it has been   *)
(* written (rev) and what sqlglot.parse_one makes of it (kind, target).    *)
(***************************************************************************)
MaxRetries == 2     \* the largest max_retries given to run_conversion
MaxFixes == 3       \* bigquery_error_fix runs explored in one run

ModificationTypes == {"Insert", "Update", "Delete", "Merge", "Create", "Drop"}

NoTable == <<"<", "N", "o", "n", "e", ">">>     \* parsed.this is None
T_ALLOWED == <<"p", ".", "d", ".", "t">>
T_QUOTED == <<BT, "p", ".", "d", BT, ".", BT, "t", BT>>
T_OTHER == <<"x", ".", "d", ".", "t">>
T_CUSTOM == <<"c", ".", "t">>

P_UNSET == <<>>                                  \* the variable is not set
P_ALLOWED == <<"p", ".", "d">>
P_CUSTOM == <<"c">>

Sql(rev, kind, target) == [rev |-> rev, kind |-> kind, target |-> target]
NoSql == Sql(0, "None", NoTable)                 \* bigquery_sql is None

\* an error message: the stage that reported it, its text, the SQL it is about
ErrorOf(stage, msg, rev) == [stage |-> stage, msg |-> msg, rev |-> rev]
NoError == ErrorOf("None", "None", 0)

\* initial_state of run_conversion
InitialState(max_retries) ==
    [spark_valid |-> FALSE,
     spark_error |-> NoError,
     bigquery_sql |-> NoSql,
     validation_success |-> FALSE,
     validation_error |-> NoError,
     retry_count |-> 0,
     max_retries |-> max_retries,
     conversion_history |-> <<>>,
     execution_success |-> "None",
     execution_error |-> NoError,
     data_verification_success |-> "None",
     llm_check_success |-> "None",
     llm_check_error |-> NoError]

\* the nodes: the state with the update a node returns merged into it
spark_sql_validate(st, valid) ==
    [st EXCEPT !.spark_valid = valid,
               !.spark_error = IF valid THEN NoError ELSE ErrorOf("spark", "invalid", 0)]

sql_convert(st, kind, target) ==
    [st EXCEPT !.bigquery_sql = Sql(1, kind, target),
               !.retry_count = 0,
               !.conversion_history = <<>>]

bigquery_dry_run_failures_only(st, success) ==
    [st EXCEPT !.validation_success = success,
               !.validation_error =
                    IF success THEN NoError ELSE ErrorOf("dry_run", "invalid", st.bigquery_sql.rev),
               !.conversion_history =
                    IF success THEN @
                    ELSE Append(@, [attempt |-> Len(@) + 1,
                                    bigquery_sql |-> st.bigquery_sql,
                                    error |-> ErrorOf("dry_run", "invalid", st.bigquery_sql.rev)])]

bigquery_dry_run(st, success) ==
    [st EXCEPT !.validation_success = success,
               !.validation_error =
                    IF success THEN NoError ELSE ErrorOf("dry_run", "invalid", st.bigquery_sql.rev),
               !.conversion_history =
                    Append(@, [attempt |-> Len(@) + 1,
                               bigquery_sql |-> st.bigquery_sql,
                               error |-> IF success THEN NoError
                                         ELSE ErrorOf("dry_run", "invalid", st.bigquery_sql.rev)])]

llm_sql_check(st, success) ==
    [st EXCEPT !.llm_check_success = IF success THEN "True" ELSE "False",
               !.llm_check_error =
                    IF success THEN NoError ELSE ErrorOf("llm_check", "flagged", st.bigquery_sql.rev)]

\* error_message of bigquery_error_fix: the execution error when the dry run
\* passed and an execution error is set, else the LLM check error when one is
\* set, else the validation error
FixPromptError(st) ==
    IF st.validation_success /\ st.execution_error # NoError THEN st.execution_error
    ELSE IF st.llm_check_error # NoError THEN st.llm_check_error
    ELSE st.validation_error

bigquery_error_fix(st, kind, target) ==
    [st EXCEPT !.bigquery_sql = Sql(st.bigquery_sql.rev + 1, kind, target),
               !.retry_count = st.retry_count + 1]

\* BigQueryService().execute_query(state["bigquery_sql"]) and the update made
\* of its result
Executed(st, success) ==
    [st EXCEPT !.execution_success = IF success THEN "True" ELSE "False",
               !.execution_error =
                    IF success THEN NoError ELSE ErrorOf("execution", "failed", st.bigquery_sql.rev)]

\* the update returned when the safety check refuses the statement
Refused(st, msg) ==
    [st EXCEPT !.execution_success = "False",
               !.execution_error = ErrorOf("execution", msg, st.bigquery_sql.rev)]

IsNotBacktick(c) == c # BT

\* clean_table_name.startswith(allowed_prefix)
TargetAllowed(target, allowed_prefix) ==
    StartsWithAt(Strip(SelectSeq(target, IsNotBacktick)), 1, allowed_prefix)

\* the SQL safety check of bigquery_sql_execute: what it decides
SafetyCheck(sql, allowed_prefix) ==
    IF allowed_prefix = P_UNSET THEN "ValueError"
    ELSE IF sql.kind = "Unparsable" THEN "Could not parse SQL"
    ELSE IF sql.kind \notin ModificationTypes THEN "passed"
    ELSE IF sql.target = NoTable THEN "could not identify target table"
    ELSE IF ~TargetAllowed(sql.target, allowed_prefix) THEN "Modification not allowed"
    ELSE "passed"

\* what a node call leaves: the exception that left it, the state, the
\* queries it handed to execute_query
NodeResult(e, st, queries) == [exc |-> e, state |-> st, queries |-> queries]

ExecuteAfterCheck(st, check, success) ==
    IF check = "ValueError" THEN NodeResult("ValueError", st, <<>>)
    ELSE IF check = "passed" THEN NodeResult("none", Executed(st, success), <<st.bigquery_sql>>)
    ELSE NodeResult("none", Refused(st, check), <<>>)

bigquery_sql_execute(st, environ, success) ==
    ExecuteAfterCheck(st, SafetyCheck(st.bigquery_sql, environ.DATA_VERIFICATION_ALLOWED_DATASET),
                      success)

\* execute_node of nodes/execute.py: no check before the query
execute_node(st, success) == NodeResult("none", Executed(st, success), <<st.bigquery_sql>>)

data_verification(st, success) ==
    [st EXCEPT !.data_verification_success = IF success THEN "True" ELSE "False"]

\* one node call: the node, the SQL in the state it was given, its outcome
NodeRun(n, sql, ok, error) == [node |-> n, sql |-> sql, ok |-> ok, error |-> error]

\* the conditional edges
should_continue_after_spark_validation(st) ==
    IF st.spark_valid THEN "sql_convert" ELSE "END"

should_continue_after_dry_run(st) ==
    IF st.validation_success THEN "llm_sql_check"
    ELSE IF st.retry_count < st.max_retries THEN "bigquery_error_fix"
    ELSE "END"

should_continue_after_llm_check_unheeded(st, environ) ==
    IF ~environ.EXECUTE_ENABLED THEN "END" ELSE "bigquery_sql_execute"

should_continue_after_llm_check(st, environ) ==
    IF st.llm_check_success # "True" THEN "bigquery_error_fix"
    ELSE IF ~environ.EXECUTE_ENABLED THEN "END"
    ELSE "bigquery_sql_execute"

should_retry_after_execution(st, environ) ==
    IF st.execution_success = "True"
    THEN IF ~environ.DATA_VERIFICATION_ENABLED THEN "END" ELSE "data_verification"
    ELSE IF st.retry_count < st.max_retries THEN "bigquery_error_fix"
    ELSE "END"

\* the SQL texts the language model may write in a run
FlowSqls ==
    {[kind |-> "Select", target |-> NoTable],
     [kind |-> "Insert", target |-> T_ALLOWED],
     [kind |-> "Insert", target |-> T_OTHER]}

Environments ==
    [EXECUTE_ENABLED : BOOLEAN,
     DATA_VERIFICATION_ENABLED : BOOLEAN,
     DATA_VERIFICATION_ALLOWED_DATASET : {P_UNSET, P_ALLOWED}]

\* run_conversion(spark_sql, max_retries) up to graph.invoke
InitFlow ==
    /\ node = "spark_sql_validate"
    /\ state \in {InitialState(m) : m \in 0..MaxRetries}
    /\ env \in Environments
    /\ submitted = <<>>
    /\ executed = <<>>
    /\ ChunkerIdle
    /\ ParenIdle

SparkSqlValidate ==
    /\ node = "spark_sql_validate"
    /\ \E valid \in BOOLEAN :
          /\ state' = spark_sql_validate(state, valid)
          /\ node' = should_continue_after_spark_validation(spark_sql_validate(state, valid))
          /\ executed' = Append(executed,
                                NodeRun(node, state.bigquery_sql, valid,
                                        spark_sql_validate(state, valid).spark_error))
    /\ UNCHANGED <<env, submitted, chunkerVars, parenVars>>

SqlConvert ==
    /\ node = "sql_convert"
    /\ \E sql \in FlowSqls : state' = sql_convert(state, sql.kind, sql.target)
    /\ node' = "bigquery_dry_run"
    /\ executed' = Append(executed, NodeRun(node, state.bigquery_sql, TRUE, NoError))
    /\ UNCHANGED <<env, submitted, chunkerVars, parenVars>>

BigqueryDryRun ==
    /\ node = "bigquery_dry_run"
    /\ \E success \in BOOLEAN :
          /\ state' = bigquery_dry_run(state, success)
          /\ node' = should_continue_after_dry_run(bigquery_dry_run(state, success))
          /\ executed' = Append(executed,
                                NodeRun(node, state.bigquery_sql, success,
                                        bigquery_dry_run(state, success).validation_error))
    /\ UNCHANGED <<env, submitted, chunkerVars, parenVars>>

LlmSqlCheck ==
    /\ node = "llm_sql_check"
    /\ \E success \in BOOLEAN :
          /\ state' = llm_sql_check(state, success)
          /\ node' = should_continue_after_llm_check(llm_sql_check(state, success), env)
          /\ executed' = Append(executed,
                                NodeRun(node, state.bigquery_sql, success,
                                        llm_sql_check(state, success).llm_check_error))
    /\ UNCHANGED <<env, submitted, chunkerVars, parenVars>>

\* explored for the first MaxFixes fixes of a run
BigqueryErrorFix ==
    /\ node = "bigquery_error_fix"
    /\ state.retry_count < MaxFixes
    /\ \E sql \in FlowSqls : state' = bigquery_error_fix(state, sql.kind, sql.target)
    /\ node' = "bigquery_dry_run"
    /\ executed' = Append(executed,
                          NodeRun(node, state.bigquery_sql, TRUE, FixPromptError(state)))
    /\ UNCHANGED <<env, submitted, chunkerVars, parenVars>>

\* a node call whose result r is merged, then the edge out of the node
AfterExecute(r, next) ==
    /\ state' = r.state
    /\ submitted' = submitted \o r.queries
    /\ executed' = Append(executed,
                          NodeRun(node, state.bigquery_sql,
                                  r.exc = "none" /\ r.state.execution_success = "True",
                                  r.state.execution_error))
    /\ node' = IF r.exc = "none" THEN next ELSE "raised"

BigquerySqlExecute ==
    /\ node = "bigquery_sql_execute"
    /\ \E success \in BOOLEAN :
          AfterExecute(bigquery_sql_execute(state, env, success),
                       should_retry_after_execution(
                           bigquery_sql_execute(state, env, success).state, env))
    /\ UNCHANGED <<env, chunkerVars, parenVars>>

DataVerification ==
    /\ node = "data_verification"
    /\ \E success \in BOOLEAN :
          /\ state' = data_verification(state, success)
          /\ executed' = Append(executed, NodeRun(node, state.bigquery_sql, success, NoError))
    /\ node' = "END"
    /\ UNCHANGED <<env, submitted, chunkerVars, parenVars>>

NextFlow ==
    \/ SparkSqlValidate
    \/ SqlConvert
    \/ BigqueryDryRun
    \/ LlmSqlCheck
    \/ BigqueryErrorFix
    \/ BigquerySqlExecute
    \/ DataVerification

SpecFlow == InitFlow /\ [][NextFlow]_vars

\* graph.invoke runs the node an edge leads to as long as the edge does not
\* lead to END: a step of the workflow that can be taken is taken
SpecFlowLive == SpecFlow /\ WF_vars(NextFlow)

(***************************************************************************)
(* The two execution nodes called directly on a state, as the tests of     *)
(* src/tests/agent/nodes/test_execute_check.py call execute_node           *)
(***************************************************************************)
\* what sqlglot.parse_one may make of state["bigquery_sql"]
ExecSqls ==
    {Sql(1, "Unparsable", NoTable), Sql(1, "Select", NoTable)}
        \cup {Sql(1, kind, target) :
                 kind \in ModificationTypes,
                 target \in {NoTable, T_ALLOWED, T_QUOTED, T_OTHER, T_CUSTOM}}

InitExec ==
    /\ node \in {"call bigquery_sql_execute", "call execute_node"}
    /\ state \in {[InitialState(0) EXCEPT !.bigquery_sql = sql] : sql \in ExecSqls}
    /\ env \in [EXECUTE_ENABLED : {TRUE},
                 DATA_VERIFICATION_ENABLED : {FALSE},
                 DATA_VERIFICATION_ALLOWED_DATASET : {P_UNSET, P_ALLOWED, P_CUSTOM}]
    /\ submitted = <<>>
    /\ executed = <<>>
    /\ ChunkerIdle
    /\ ParenIdle

CallBigquerySqlExecute ==
    /\ node = "call bigquery_sql_execute"
    /\ \E success \in BOOLEAN :
          AfterExecute(bigquery_sql_execute(state, env, success), "returned")
    /\ UNCHANGED <<env, chunkerVars, parenVars>>

CallExecuteNode ==
    /\ node = "call execute_node"
    /\ \E success \in BOOLEAN : AfterExecute(execute_node(state, success), "returned")
    /\ UNCHANGED <<env, chunkerVars, parenVars>>

NextExec == CallBigquerySqlExecute \/ CallExecuteNode

SpecExec == InitExec /\ [][NextExec]_vars

(***************************************************************************)
(* Reference notions the properties are stated with                        *)
(***************************************************************************)
Analysed == pc \in {"chunked", "merged"}

Contents(cs) == [i \in 1..Len(cs) |-> cs[i].content]
Kinds(cs) == [i \in 1..Len(cs) |-> cs[i].chunk_type]
Indexes(cs) == [i \in 1..Len(cs) |-> cs[i].index]

NotSpace(c) == ~IsSpace(c)
\* a text with its white space removed
Squeeze(s) == SelectSeq(s, NotSpace)

\* The statements of a script, a literal running from its opening quote to the
\* next quote of the same kind that no backslash precedes (or to the end of the
\* text when there is none): split at the semicolons outside literals, trimmed,
\* empty segments dropped.
RECURSIVE RefSplitLoop(_, _, _, _, _)
RefSplitLoop(sql, i, quote, current, statements) ==
    LET stops == {p \in i..Len(sql) :
                    IF quote = "None" THEN sql[p] \in {SQ, DQ, ";"}
                    ELSE sql[p] = quote /\ sql[p - 1] # BS}
        j == IF stops = {} THEN Len(sql) + 1 ELSE MinOf(stops)
        upto == current \o Sub(sql, i, j - 1)
        flushed == IF Strip(upto) # <<>> THEN Append(statements, Strip(upto))
                   ELSE statements
    IN  IF j > Len(sql) THEN flushed
        ELSE IF quote # "None"
        THEN RefSplitLoop(sql, j + 1, "None", Append(upto, sql[j]), statements)
        ELSE IF sql[j] = ";" THEN RefSplitLoop(sql, j + 1, quote, <<>>, flushed)
        ELSE RefSplitLoop(sql, j + 1, sql[j], Append(upto, sql[j]), statements)

RefSplit(sql) == RefSplitLoop(sql, 1, "None", <<>>, <<>>)

\* the input text with its INSERT or ALTER VIEW header rewritten, the
\* statement the reassembled fragments are to reconstitute
Rewritten(sql) ==
    IF InsertSelectMatch(sql).ok
    THEN _convert_insert_header(InsertSelectMatch(sql).insert_part)
         \o <<NL>> \o InsertSelectMatch(sql).select_part
    ELSE IF AlterViewMatch(sql).ok
    THEN _convert_alter_view_header(AlterViewMatch(sql).alter_part)
         \o <<NL>> \o AlterViewMatch(sql).select_part
    ELSE sql

\* the first 1-based position >= from at which part occurs in text, 0 if none
FindFrom(text, part, from) ==
    LET at == {p \in from..Len(text) - Len(part) + 1 : StartsWithAt(text, p, part)}
    IN  IF at = {} THEN 0 ELSE MinOf(at)

\* the parts occur in text one after the other, without overlap
RECURSIVE InOrder(_, _, _)
InOrder(text, parts, from) ==
    IF parts = <<>> THEN TRUE
    ELSE LET p == FindFrom(text, Head(parts), from)
         IN  p > 0 /\ InOrder(text, Tail(parts), p + Len(Head(parts)))

(***************************************************************************)
(* C1                                                                      *)
(***************************************************************************)
\* C1: with the identity translation, convert_chunks(analyze_and_chunk(sql))
\* reconstitutes the input: analysis returns, and the merged text equals the
\* input, its INSERT / ALTER VIEW header rewritten, up to white space.
C1_RoundTrip ==
    /\ exc = "none"
    /\ pc = "merged" => Squeeze(result) = Squeeze(Rewritten(original_sql))

(***************************************************************************)
(* C2                                                                      *)
(***************************************************************************)
\* the fragments C2 promises for WITH n1 AS d1, ..., nk AS dk main
ExpectedCteChunks(inp) ==
    [i \in 1..Len(inp.names) |-> SQLChunk("cte", inp.defs[i], inp.names[i], i - 1)]
        \o <<SQLChunk("main", inp.main, NoName, Len(inp.names))>>

\* C2: a statement WITH followed by k well-formed CTE definitions and a main
\* query is returned as k cte fragments (name, parenthesized definition,
\* index 0..k-1) in source order, then one main fragment with index k.
C2_CteFragments ==
    (input.family = "cte" /\ pc # "new")
        => (exc = "none" /\ chunks = ExpectedCteChunks(input))

(***************************************************************************)
(* C3                                                                      *)
(***************************************************************************)
\* the statement starts with WITH and _parse_cte_and_main finds no CTE block
NoCteBlock(sql) ==
    /\ _has_cte(sql)
    /\ _parse_cte_and_main(WithMatch(sql).after_with).cte_blocks = <<>>

\* C3: when a statement starts with WITH but no CTE block can be parsed after
\* it, analysis returns exactly one main fragment holding the whole statement.
C3_CteFallback ==
    (input.family = "malformed" /\ NoCteBlock(original_sql) /\ pc # "new")
        => (exc = "none" /\ chunks = <<SQLChunk("main", original_sql, NoName, 0)>>)

(***************************************************************************)
(* C4                                                                      *)
(***************************************************************************)
\* C4: analyze_and_chunk never raises, and the list it returns for a
\* non-empty input is non-empty.
C4_NeverRaises ==
    /\ pc # "raised"
    /\ (Analysed /\ original_sql # <<>>) => chunks # <<>>

(***************************************************************************)
(* C5                                                                      *)
(***************************************************************************)
\* C5: no fragment boundary falls inside a string literal: a script split at
\* its semicolons is split exactly at the semicolons outside literals, so the
\* fragments are the statements of the script, literals intact.
C5_BoundariesOutsideLiterals ==
    (Analysed /\ _has_multiple_statements(original_sql))
        => Contents(chunks) = RefSplit(original_sql)

(***************************************************************************)
(* C6                                                                      *)
(***************************************************************************)
\* the contents convert_chunks hands to the reassembler: headers rewritten,
\* use fragments dropped
ConvertedContents(cs) ==
    LET parts == ConvertLoop(cs, 1)
    IN  [i \in 1..Len(parts) |-> parts[i].content]

\* C6: in every list analyze_and_chunk returns the indexes are strictly
\* increasing in list order, and after convert_chunks with the identity
\* translation the contents of the fragments that are not dropped occur in
\* the merged text one after the other in that order.
C6_OrderPreserved ==
    /\ Analysed => \A i \in 1..Len(chunks) - 1 : chunks[i].index < chunks[i + 1].index
    /\ pc = "merged" => InOrder(result, ConvertedContents(chunks), 1)

\* a header and two UNION branches have been merged
C6_Witness ==
    /\ pc = "merged"
    /\ Len(chunks) >= 3
    /\ chunks[1].chunk_type = "insert_header"
    /\ chunks[3].chunk_type = "union_part"

(***************************************************************************)
(* C7                                                                      *)
(***************************************************************************)
\* C7: a script of N >= 2 statements separated by semicolons yields N
\* fragments of kind statement, and the merged text is every statement
\* followed by a semicolon, the statements separated by a newline.
C7_StatementsSplit ==
    (input.family = "statements" /\ Len(input.stmts) >= 2)
        => /\ pc # "raised"
           /\ Analysed =>
                /\ Contents(chunks) = input.stmts
                /\ \A i \in 1..Len(chunks) : chunks[i].chunk_type = "statement"
           /\ pc = "merged" =>
                result = Join(<<NL>>, [i \in 1..Len(input.stmts) |->
                                          Append(input.stmts[i], ";")])

(***************************************************************************)
(* C8                                                                      *)
(***************************************************************************)
\* the branches of a statement of the union family
UnionBranches(inp) == <<inp.first>> \o [i \in 1..Len(inp.tails) |-> inp.tails[i].branch]

\* C8: a statement of k + 1 branches separated by k top-level UNION or
\* UNION ALL keywords yields k + 1 fragments holding the branches in source
\* order, the first of kind union_first and the others union_part, and the
\* merged text is the branches joined by UNION ALL on a line of its own.
C8_UnionSplit ==
    input.family = "union"
        => /\ pc # "raised"
           /\ Analysed =>
                /\ Contents(chunks) = UnionBranches(input)
                /\ \A i \in 1..Len(chunks) :
                       chunks[i].chunk_type = IF i = 1 THEN "union_first" ELSE "union_part"
           /\ pc = "merged" =>
                result = Join(<<NL>> \o K_UNION_ALL \o <<NL>>, UnionBranches(input))

(***************************************************************************)
(* C9                                                                      *)
(***************************************************************************)
\* the table each header text names, without its backquotes
TableNamed(header) ==
    CASE header = S_H_INTO -> <<"t">>
      [] header = S_H_OVERWRITE -> <<"d", "b", ".", "t">>
      [] header = S_H_LOWER -> <<"T", "1">>

\* C9: INSERT [OVERWRITE] [INTO] TABLE name followed by a body with no leading
\* WITH and no top-level UNION yields the insert_header fragment (index 0, the
\* header text) and a select fragment (index 1, the body), and the merged
\* text is the line CREATE OR REPLACE TABLE `name` AS followed by the body.
C9_InsertSelect ==
    (input.family = "insert" /\ input.header \in TableHeaders /\ input.body \in PlainBodies)
        => /\ pc # "raised"
           /\ Analysed =>
                chunks = <<SQLChunk("insert_header", input.header, NoName, 0),
                           SQLChunk("select", input.body, NoName, 1)>>
           /\ pc = "merged" =>
                result = CreateOrReplace(K_TABLE, TableNamed(input.header))
                             \o <<NL>> \o input.body

(***************************************************************************)
(* C10                                                                     *)
(***************************************************************************)
\* C10 as stated: should_chunk returns true exactly when the length of the
\* SQL handed to the chunker exceeds MAX_SQL_LENGTH or its newline count
\* exceeds MAX_SQL_LINES.
C10_ShouldChunkOfInput ==
    decision # "unset"
        => (decision = "yes"
                <=> (Len(sql_in) > max_len \/ Count(sql_in, NL) > max_lines))

\* C10 as amended: should_chunk returns true exactly when the SQL, its leading
\* and trailing white space stripped, is longer than MAX_SQL_LENGTH characters
\* or holds more than MAX_SQL_LINES newlines.
C10_ShouldChunkOfStripped ==
    decision # "unset"
        => (decision = "yes"
                <=> (Len(Strip(sql_in)) > max_len
                        \/ Count(Strip(sql_in), NL) > max_lines))

\* one character over the length threshold, the line threshold not passed:
\* should_chunk has answered yes
C10_Witness ==
    /\ decision = "yes"
    /\ Len(Strip(sql_in)) = max_len + 1
    /\ Count(Strip(sql_in), NL) <= max_lines

(***************************************************************************)
(* C11: the closing parenthesis                                            *)
(***************************************************************************)
\* a quotation mark that opens or closes a literal: not preceded by a backslash
IsQuoteMark(s, j) == s[j] \in {SQ, DQ} /\ (j = 1 \/ s[j - 1] # BS)

\* the quote of the literal that is open after the characters from..j, "None"
\* when none is open
RECURSIVE OpenQuote(_, _, _)
OpenQuote(s, from, j) ==
    IF j < from THEN "None"
    ELSE LET q == OpenQuote(s, from, j - 1)
         IN  IF ~IsQuoteMark(s, j) THEN q
             ELSE IF q = "None" THEN s[j]
             ELSE IF q = s[j] THEN "None"
             ELSE q

\* the character at j is outside every literal that starts at or after from
OutsideLiterals(s, from, j) == ~IsQuoteMark(s, j) /\ OpenQuote(s, from, j) = "None"

ParensOutside(s, from, j, c) ==
    Cardinality({k \in from..j : s[k] = c /\ OutsideLiterals(s, from, k)})

\* 0-based index of the first closing parenthesis outside the literals that
\* balances the parentheses outside the literals since open, or -1
ClosingParen(s, open) ==
    LET closing == {j \in open + 1..Len(s) :
                      /\ s[j] = ")"
                      /\ OutsideLiterals(s, open + 1, j)
                      /\ ParensOutside(s, open + 1, j, "(") = ParensOutside(s, open + 1, j, ")")}
    IN  IF closing = {} THEN -1 ELSE MinOf(closing) - 1

\* C11: _find_matching_paren(text, open), open at a '(', returns the index of
\* the ')' that closes it, counting nesting and ignoring the parentheses
\* inside quoted literals (a quote preceded by a backslash does not end the
\* literal), and -1 when there is none; n nested pairs give the index of the
\* final ')' and (a ')' b) gives the index of its last character.
C11_MatchingParen ==
    paren_result # <<>> =>
        /\ paren_result[1] = ClosingParen(paren_args.sql, paren_args.start)
        /\ \A n \in 1..MaxNest :
              paren_args = [sql |-> Nested(n), start |-> 0] => paren_result[1] = 2 * n - 1
        /\ paren_args = [sql |-> S_PAREN_LIT, start |-> 0]
              => paren_result[1] = Len(S_PAREN_LIT) - 1

\* the call on (a ')' b) has returned the index of the last character
C11_Witness ==
    /\ paren_args = [sql |-> S_PAREN_LIT, start |-> 0]
    /\ paren_result = <<8>>

(***************************************************************************)
(* C12: the converter calls                                                *)
(***************************************************************************)
\* the chunks that are sent to the converter
Eligible(chunk) == chunk.chunk_type \notin {"insert_header", "alter_view_header", "use"}
NotUse(chunk) == chunk.chunk_type # "use"

\* cs is the list in ascending index order, chunks of equal index in list order
AscendingByIndex(cs) == \A i \in 1..Len(cs) - 1 : cs[i].index <= cs[i + 1].index

C13_ConverterErrorPropagates ==
    input.family = "chunks" /\ pc # "chunked" =>
        IF fail_at \in 1..Len(SelectSeq(chunks, Eligible))
        THEN /\ pc = "convert_raised"
             /\ exc = "ConverterError"
             /\ calls = SubSeq(Contents(SelectSeq(chunks, Eligible)), 1, fail_at)
             /\ result = <<>>
        ELSE pc = "merged" /\ exc = "none"

\* the converter raised on the second of three fragments sent to it
C13_Witness ==
    /\ pc = "convert_raised"
    /\ fail_at = 2
    /\ Len(calls) = 2
    /\ Len(SelectSeq(chunks, Eligible)) = 3

(***************************************************************************)
(* C14: a single fragment                                                  *)
(***************************************************************************)
\* what convert_chunks makes of the content of one chunk
Translated(chunk) ==
    IF chunk.chunk_type = "insert_header" THEN _convert_insert_header(chunk.content)
    ELSE IF chunk.chunk_type = "alter_view_header" THEN _convert_alter_view_header(chunk.content)
    ELSE converter_func(chunk.content)

KnownKinds ==
    {"insert_header", "alter_view_header", "cte", "main", "select", "cte_query",
     "union_first", "union_part", "statement", "use"}

\* the list with every chunk of an unknown kind turned into a main chunk
UnknownAsMain(cs) ==
    [i \in 1..Len(cs) |->
        IF cs[i].chunk_type \in KnownKinds THEN cs[i]
        ELSE [cs[i] EXCEPT !.chunk_type = "main"]]

Rank(ps, i) ==
    Cardinality({j \in 1..Len(ps) :
                    \/ ps[j].index < ps[i].index
                    \/ ps[j].index = ps[i].index /\ j <= i})

InIndexOrder(ps) == [r \in 1..Len(ps) |-> ps[CHOOSE i \in 1..Len(ps) : Rank(ps, i) = r]]

PartIsHeader(part) == part.type \in {"insert_header", "alter_view_header"}
PartIsCte(part) == part.type = "cte"
PartIsBody(part) == part.type \notin {"insert_header", "alter_view_header", "cte"}

\* every arrangement of a list
Arrangements(xs) ==
    {[i \in 1..Len(xs) |-> xs[f[i]]] :
        f \in {g \in [1..Len(xs) -> 1..Len(xs)] :
                  \A i, j \in 1..Len(xs) : i # j => g[i] # g[j]}}

CteLine(part, first) ==
    (IF first THEN <<"W", "I", "T", "H", " ">> ELSE <<",", " ">>)
        \o (IF part.name = NoName THEN <<"N", "o", "n", "e">> ELSE part.name)
        \o <<" ", "A", "S", " ">> \o Strip(part.content)

BodyLine(part) ==
    Strip(part.content) \o (IF part.type = "statement" THEN <<";">> ELSE <<>>)

BodySeparator(ps) ==
    IF \E i \in 1..Len(ps) : ps[i].type \in {"union_first", "union_part"}
    THEN <<NL, "U", "N", "I", "O", "N", " ", "A", "L", "L", NL>>
    ELSE <<NL>>

\* the blocks after the headers: the CTE block if there is a cte part, then
\* the body block if there is a body part
LaterBlocks(ps) ==
    LET ctes == SelectSeq(InIndexOrder(ps), PartIsCte)
        body == SelectSeq(InIndexOrder(ps), PartIsBody)
    IN  (IF ctes = <<>> THEN <<>>
         ELSE <<Join(<<NL>>, [i \in 1..Len(ctes) |-> CteLine(ctes[i], i = 1)])>>)
        \o (IF body = <<>> THEN <<>>
            ELSE <<Join(BodySeparator(ps), [i \in 1..Len(body) |-> BodyLine(body[i])])>>)

HeaderLines(ps) ==
    LET headers == SelectSeq(ps, PartIsHeader)
    IN  [i \in 1..Len(headers) |-> Strip(headers[i].content)]

\* C20: for two or more parts the output is, joined by newlines: the header
\* parts first, whatever their indexes; then the CTE block, the cte parts in
\* index order, the first as WITH <name> AS <content> and each later one as
\* , <name> AS <content> on a line of its own; then the body block, the
\* remaining parts in index order (contents are trimmed in every block).
C20_BlocksInOrder ==
    pc = "merged" /\ Len(ConvertLoop(chunks, 1)) >= 2 =>
        \E hs \in Arrangements(HeaderLines(ConvertLoop(chunks, 1))) :
            result = Join(<<NL>>, hs \o LaterBlocks(ConvertLoop(chunks, 1)))

\* a header with the highest index was put before a CTE block of one cte and
\* a body part
C20_Witness ==
    /\ pc = "merged"
    /\ input.family = "chunks"
    /\ input.text = "padded"
    /\ Len(chunks) = 3
    /\ chunks[1].chunk_type = "main" /\ chunks[1].index = 0
    /\ chunks[2].chunk_type = "cte" /\ chunks[2].index = 1
    /\ chunks[3].chunk_type = "alter_view_header" /\ chunks[3].index = 2
    /\ result = <<"c", NL, "W", "I", "T", "H", " ", "N", "o", "n", "e", " ", "A", "S", " ", "b",
                  NL, "a">>

(***************************************************************************)
(* C16: the number of fixes                                                *)
(***************************************************************************)
\* C16: in every run of the workflow bigquery_error_fix is executed at most
\* max_retries times: retry_count never exceeds max_retries, whichever
\* stage reported the failure that led to the fix.
C16_RetriesBounded ==
    node # "idle" => state.retry_count <= state.max_retries

(***************************************************************************)
(* C17: the safety check before execution                                  *)
(***************************************************************************)
\* the target name without its backquotes and surrounding white space
CleanName(target) == Strip(SelectSeq(target, IsNotBacktick))

HasPrefix(name, prefix) ==
    Len(prefix) <= Len(name) /\ SubSeq(name, 1, Len(prefix)) = prefix

Modifying(sql) == sql.kind \in {"Insert", "Update", "Delete", "Merge", "Create", "Drop"}

ForbiddenTarget(sql, prefix) ==
    Modifying(sql) /\ sql.target # NoTable /\ ~HasPrefix(CleanName(sql.target), prefix)

AllowedOrReadOnly(sql, prefix) ==
    \/ sql.kind = "Select"
    \/ Modifying(sql) /\ sql.target # NoTable /\ HasPrefix(CleanName(sql.target), prefix)

\* C17: with an allowed dataset prefix configured, an execution node called
\* on a state never hands a data-modifying statement to execute_query unless
\* its target starts with the prefix: a forbidden target gives
\* execution_success False with 'Modification not allowed', an unparsable
\* statement gives execution_success False with 'Could not parse SQL', both
\* without any query, and a read-only statement or an allowed target is
\* executed exactly once.
C17_OnlyAllowedModifications ==
    node = "returned" /\ env.DATA_VERIFICATION_ALLOWED_DATASET # P_UNSET =>
        /\ \A i \in 1..Len(submitted) :
              ~ForbiddenTarget(submitted[i], env.DATA_VERIFICATION_ALLOWED_DATASET)
        /\ ForbiddenTarget(state.bigquery_sql, env.DATA_VERIFICATION_ALLOWED_DATASET) =>
              /\ state.execution_success = "False"
              /\ state.execution_error.msg = "Modification not allowed"
              /\ submitted = <<>>
        /\ state.bigquery_sql.kind = "Unparsable" =>
              /\ state.execution_success = "False"
              /\ state.execution_error.msg = "Could not parse SQL"
              /\ submitted = <<>>
        /\ AllowedOrReadOnly(state.bigquery_sql, env.DATA_VERIFICATION_ALLOWED_DATASET) =>
              submitted = <<state.bigquery_sql>>

(***************************************************************************)
(* C18: the order of the strategies                                        *)
(***************************************************************************)
StatementKinds == {"cte_query", "insert", "alter_view", "create", "select", "use", "other"}

KindsWithin(cs, kinds) == \A i \in 1..Len(cs) : cs[i].chunk_type \in kinds

\* the list starts with a chunk of one of the kinds
StartsWithKind(cs, kinds) == cs # <<>> /\ cs[1].chunk_type \in kinds

\* C18: analyze_and_chunk applies the first matching strategy of: several
\* statements, INSERT...SELECT, ALTER VIEW, leading WITH, top-level UNION,
\* single main fragment; an INSERT...SELECT whose body starts with WITH is
\* split as an INSERT, header first, with its body chunked as a CTE, and a
\* script of several statements is never split by CTE or UNION.
C18_FirstMatchingStrategy ==
    pc # "new" =>
        /\ IF _has_multiple_statements(original_sql)
           THEN Analysed /\ KindsWithin(chunks, StatementKinds)
           ELSE IF _is_insert_select(original_sql)
           THEN Analysed => StartsWithKind(chunks, {"insert_header", "insert"})
           ELSE IF _is_alter_view(original_sql)
           THEN Analysed => StartsWithKind(chunks, {"alter_view_header", "alter_view"})
           ELSE IF _has_cte(original_sql)
           THEN Analysed => KindsWithin(chunks, {"cte", "main"})
           ELSE IF _has_union(original_sql)
           THEN Analysed /\ KindsWithin(chunks, {"union_first", "union_part", "main"})
           ELSE Analysed /\ chunks = <<SQLChunk("main", original_sql, NoName, 0)>>
        /\ input.family = "insert" /\ input.header \in TableHeaders /\ input.body = S_B_WITH =>
              /\ Analysed
              /\ chunks[1] = SQLChunk("insert_header", input.header, NoName, 0)
              /\ KindsWithin(Tail(chunks), {"cte", "main"})
              /\ \E i \in 1..Len(chunks) : chunks[i].chunk_type = "cte"

(***************************************************************************)
(* C19: the indexes of the INSERT...SELECT path                            *)
(***************************************************************************)
\* C19: for INSERT ... TABLE name followed by a body, the header has index 0;
\* when the body starts with WITH or has a top-level UNION its sub-fragments
\* follow in their order and with their kinds, re-indexed 1, 2, ... so that
\* all indexes differ; otherwise one select fragment with index 1 follows.
C19_InsertIndexes ==
    input.family = "insert" /\ input.header \in TableHeaders /\ pc # "new" =>
        /\ Analysed
        /\ chunks[1] = SQLChunk("insert_header", input.header, NoName, 0)
        /\ Indexes(chunks) = [i \in 1..Len(chunks) |-> i - 1]
        /\ input.body = S_B_WITH =>
              Kinds(Tail(chunks)) = <<"cte", "main">>
        /\ input.body = S_B_UNION =>
              /\ Kinds(Tail(chunks)) = Kinds(_chunk_by_union(S_B_UNION).chunks)
              /\ Contents(Tail(chunks)) = Contents(_chunk_by_union(S_B_UNION).chunks)
              /\ Len(chunks) = 3
        /\ input.body \in PlainBodies =>
              Tail(chunks) = <<SQLChunk("select", input.body, NoName, 1)>>

(***************************************************************************)
(* C21: ALTER VIEW                                                         *)
(***************************************************************************)
\* the ALTER VIEW texts of the form ALTER VIEW name AS SELECT ...
MatchingAlterTexts ==
    {S_AV_PLAIN, S_AV_UNION, S_AV_NL, S_AV_SUBQUERY_CTE, S_AV_ESCAPED_SEMI}

\* the header ALTER VIEW name AS of such a text and the body after the white
\* space that follows it
AlterHeaderOf(text) == SubSeq(text, 1, IF text = S_AV_UNION THEN 17 ELSE 15)
AlterBodyOf(text) == SubSeq(text, Len(AlterHeaderOf(text)) + 2, Len(text))

\* C21: ALTER VIEW name AS SELECT ... yields the alter_view_header fragment
\* (index 0) and one select fragment (index 1) holding the whole body, also
\* when the body has a CTE or a top-level UNION; convert_chunks hands only the
\* body to the converter and puts CREATE OR REPLACE VIEW `name` AS before it;
\* an ALTER VIEW text of another form is one fragment with the full text.
C21_AlterView ==
    input.family = "alter" =>
        /\ pc # "raised"
        /\ Analysed =>
              IF input.text \in MatchingAlterTexts
              THEN chunks = <<SQLChunk("alter_view_header", AlterHeaderOf(input.text), NoName, 0),
                              SQLChunk("select", AlterBodyOf(input.text), NoName, 1)>>
              ELSE Len(chunks) = 1 /\ chunks[1].content = input.text
        /\ (pc = "merged" /\ input.text \in MatchingAlterTexts) =>
              /\ calls = <<AlterBodyOf(input.text)>>
              /\ result = CreateOrReplace(K_VIEW, <<"v">>) \o <<NL>> \o AlterBodyOf(input.text)

(***************************************************************************)
(* C22: UNION inside parentheses or literals                               *)
(***************************************************************************)
\* C22: a statement whose only UNION stands inside a parenthesized subquery
\* or inside a string literal is returned as one main fragment holding the
\* full text, also when _has_union flags a UNION of which
\* _find_top_level_unions finds no top-level occurrence.
C22_EnclosedUnionNotSplit ==
    (input.family = "enclosed" /\ pc # "new") =>
        /\ Analysed
        /\ chunks = <<SQLChunk("main", input.text, NoName, 0)>>

(***************************************************************************)
(* C23: UNION chunking partitions the text                                 *)
(***************************************************************************)
\* C23: the fragments of a statement split at its top-level UNION / UNION ALL
\* keywords hold, in source order, exactly the characters of the statement
\* that are neither white space nor part of such a keyword: nothing is
\* dropped and nothing is duplicated, however the separator is spelled.
C23_UnionPartition ==
    (input.family = "union" /\ pc # "new") =>
        /\ Analysed
        /\ Squeeze(Concat(Contents(chunks))) = Squeeze(Concat(UnionBranches(input)))

(***************************************************************************)
(* C24: UNION as a whole keyword                                           *)
(***************************************************************************)
\* the characters s[from+1..to] (0-based from, exclusive to) are not cut out
\* of a longer word
WholeWordAt(s, from, to) ==
    /\ from = 0 \/ ~IsWord(s[from])
    /\ to >= Len(s) \/ ~IsWord(s[to + 1])

\* text occurs in s without cutting a word of s at either end
OccursUncut(s, text) ==
    \E p \in 1..Len(s) :
        /\ StartsWithAt(s, p, text)
        /\ p = 1 \/ ~(IsWord(s[p - 1]) /\ IsWord(s[p]))
        /\ p + Len(text) > Len(s)
              \/ ~(IsWord(s[p + Len(text) - 1]) /\ IsWord(s[p + Len(text)]))

\* C24: every split point _find_top_level_unions reports is a UNION standing
\* as a whole word, never the letters of UNION inside an identifier such as
\* union_id or reunion; the split points exist exactly when _has_union
\* detects a UNION; and no fragment begins or ends inside an identifier.
C24_WholeKeywordSplits ==
    (input.family = "identifier" /\ pc # "new") =>
        /\ \A k \in 1..Len(_find_top_level_unions(original_sql)) :
              WholeWordAt(original_sql, _find_top_level_unions(original_sql)[k][1],
                          _find_top_level_unions(original_sql)[k][1] + 5)
        /\ _has_union(original_sql) <=> _find_top_level_unions(original_sql) # <<>>
        /\ Analysed
        /\ \A i \in 1..Len(chunks) : OccursUncut(original_sql, chunks[i].content)

(***************************************************************************)
(* C25: the error message of the fix prompt                                *)
(***************************************************************************)
\* C25: each time bigquery_error_fix runs, the error message it puts in the
\* fix prompt is the one reported by the node that ran just before it and
\* whose failure routed the workflow to the fix node (dry run, LLM check or
\* execution), never an error an earlier iteration left in the state.
C25_FixPromptHasRoutingError ==
    \A i \in 1..Len(executed) :
        executed[i].node = "bigquery_error_fix" =>
            /\ i > 1
            /\ ~executed[i - 1].ok
            /\ executed[i].error = executed[i - 1].error

(***************************************************************************)
(* C26: the workflow terminates                                            *)
(***************************************************************************)
\* the runs of bigquery_error_fix so far
FixRounds ==
    Cardinality({i \in 1..Len(executed) : executed[i].node = "bigquery_error_fix"})

\* C26: as long as every node call returns, a run of the workflow reaches END,
\* and it does so after at most max_retries runs of bigquery_error_fix,
\* whatever the dry runs, the LLM checks and the executions give.
C26_Terminates ==
    [](node # "raised") => (<>(node = "END") /\ [](FixRounds <= state.max_retries))

(***************************************************************************)
(* C27: what is executed was validated and checked                         *)
(***************************************************************************)
\* node call i ran node n and succeeded
RanWell(i, n) == executed[i].node = n /\ executed[i].ok

\* C27: bigquery_sql_execute only runs on a bigquery_sql that passed the LLM
\* check in the node call just before, and the dry run in the call before
\* that, and was not written in between (so the SQL a fix wrote goes through
\* both again); the query it hands over is that SQL; and sql_convert only
\* runs right after a Spark validation that passed.
C27_ExecutedSqlWasChecked ==
    /\ \A i \in 1..Len(executed) :
          /\ executed[i].node = "bigquery_sql_execute" =>
                /\ i > 2
                /\ RanWell(i - 1, "llm_sql_check") /\ executed[i - 1].sql = executed[i].sql
                /\ RanWell(i - 2, "bigquery_dry_run") /\ executed[i - 2].sql = executed[i].sql
          /\ executed[i].node = "sql_convert" => i > 1 /\ RanWell(i - 1, "spark_sql_validate")
    /\ node = "bigquery_sql_execute" =>
          /\ Len(executed) > 1
          /\ RanWell(Len(executed), "llm_sql_check")
          /\ executed[Len(executed)].sql = state.bigquery_sql
    /\ \A q \in 1..Len(submitted) :
          \E i \in 1..Len(executed) :
              executed[i].node = "bigquery_sql_execute" /\ executed[i].sql = submitted[q]

\* the SQL of a fix was executed, after the execution of the converted SQL had
\* failed
C27_Witness ==
    /\ Len(submitted) = 2
    /\ submitted[1].rev = 1
    /\ submitted[2].rev = 2
    /\ \E i \in 1..Len(executed) : executed[i].node = "bigquery_error_fix"
    /\ RanWell(Len(executed), "bigquery_sql_execute")

(***************************************************************************)
(* C28: conversion_history                                                 *)
(***************************************************************************)
IsDryRun(run) == run.node = "bigquery_dry_run"

\* the calls of bigquery_dry_run made so far, in order
DryRuns == SelectSeq(executed, IsDryRun)

\* C28: after the k-th run of bigquery_dry_run conversion_history has k
\* entries, numbered 1..k in order, entry j holding the SQL the j-th dry run
\* was given and an error exactly when that dry run failed; as this holds in
\* every state, no other node changes the history after sql_convert emptied
\* it.
C28_HistoryOfDryRuns ==
    node # "idle" =>
        /\ Len(state.conversion_history) = Len(DryRuns)
        /\ \A k \in 1..Len(DryRuns) :
              /\ state.conversion_history[k] =
                     [attempt |-> k, bigquery_sql |-> DryRuns[k].sql, error |-> DryRuns[k].error]
              /\ DryRuns[k].error # NoError <=> ~DryRuns[k].ok

\* three dry runs: two that failed, each followed by a fix, and one that
\* passed, with the LLM check and the execution after it
C28_Witness ==
    /\ node = "END"
    /\ Len(state.conversion_history) = 3
    /\ state.conversion_history[1].error # NoError
    /\ state.conversion_history[2].error # NoError
    /\ state.conversion_history[3].error = NoError
    /\ state.conversion_history[3].bigquery_sql.rev = 3
    /\ Len(submitted) = 1

(***************************************************************************)
(* The sql_convert node: the chunking mode, the three conversion branches  *)
(* and the table name mapping                                              *)
(***************************************************************************)
\* a value of the local bigquery_sql: form "str" is a string, form "tuple" the
\* tuple (text, usage, model_name, latency_ms), form "unbound" no value yet
Value(form, text) == [form |-> form, text |-> text, mapped |-> FALSE]

\* _convert_single_chunk: the model's reply (here an echo of the statement),
\* stripped; the caller gets it as the first item of a 4-tuple
_convert_single_chunk(spark_sql) == Strip(spark_sql)

\* str.lower()
LowerStr(s) ==
    [i \in 1..Len(s) |-> IF s[i] \in Range(UpperSeq)
                         THEN LowerSeq[CHOOSE k \in 1..26 : UpperSeq[k] = s[i]]
                         ELSE s[i]]

\* the values SQL_CHUNKING_MODE is given
M_AUTO == <<"a","u","t","o">>
M_DISABLED == <<"d","i","s","a","b","l","e","d">>
M_ALWAYS == <<"a","l","w","a","y","s">>
M_OFF == <<"o","f","f">>
M_DISABLED_CAPITAL == <<"D","i","s","a","b","l","e","d">>
M_ALWAYS_UPPER == <<"A","L","W","A","Y","S">>
ChunkingModes ==
    {P_UNSET, M_DISABLED, M_ALWAYS, M_OFF, M_DISABLED_CAPITAL, M_ALWAYS_UPPER}

\* the mode compared as the environment holds it, not lower-cased
UseChunking_exact(environ, should) ==
    IF environ.SQL_CHUNKING_MODE = M_DISABLED THEN FALSE
    ELSE IF environ.SQL_CHUNKING_MODE = M_ALWAYS THEN TRUE
    ELSE should

\* use_chunking: should_chunk() overridden by
\* os.getenv("SQL_CHUNKING_MODE", "auto").lower()
UseChunking(environ, should) ==
    IF LowerStr(IF environ.SQL_CHUNKING_MODE = P_UNSET THEN M_AUTO
                ELSE environ.SQL_CHUNKING_MODE) = M_DISABLED THEN FALSE
    ELSE IF LowerStr(IF environ.SQL_CHUNKING_MODE = P_UNSET THEN M_AUTO
                     ELSE environ.SQL_CHUNKING_MODE) = M_ALWAYS THEN TRUE
    ELSE should

\* what follows chunker.analyze_and_chunk(), a being what it gave and r the
\* loop of ChunkedConverter(converter_func).convert_chunks(chunks), where every
\* call of converter_func accumulates one usage; with one fragment the tuple
\* of _convert_single_chunk is kept whole and no usage is added
AfterAnalysis(spark_sql, a, r) ==
    IF a.exc # "none"
    THEN [exc |-> a.exc, branch |-> "analysis", chunks |-> <<>>, calls |-> <<>>,
          value |-> Value("unbound", <<>>), usage |-> 0]
    ELSE IF Len(a.chunks) > 1
    THEN [exc |-> "none", branch |-> "chunked", chunks |-> a.chunks, calls |-> r.calls,
          value |-> Value("str", _merge_parts(r.parts)), usage |-> Len(r.calls)]
    ELSE [exc |-> "none", branch |-> "single", chunks |-> a.chunks,
          calls |-> <<spark_sql>>,
          value |-> Value("tuple", _convert_single_chunk(spark_sql)), usage |-> 0]

\* replace_table_names(bigquery_sql, table_mapping): one re.sub per mapping of
\* table_mapping or, when that is empty, of the service's own mappings
replace_table_names(c, table_mapping) ==
    IF c.exc # "none" THEN c
    ELSE IF c.value.form = "tuple" /\ table_mapping # "empty"
    THEN [c EXCEPT !.exc = "TypeError"]
    ELSE [c EXCEPT !.value.mapped = TRUE]

\* the body of the node from SQLChunker(spark_sql) to the mapping; in the
\* direct branch the tuple is unpacked and its usage accumulated
ConvertAndMap(spark_sql, a, use_chunking, table_mapping) ==
    replace_table_names(
        IF use_chunking
        THEN AfterAnalysis(spark_sql, a,
                           IF a.exc = "none" THEN ConvertRun(a.chunks, 1, 0, 0)
                           ELSE [parts |-> <<>>, calls |-> <<>>])
        ELSE [exc |-> "none", branch |-> "direct", chunks |-> <<>>,
              calls |-> <<spark_sql>>,
              value |-> Value("str", _convert_single_chunk(spark_sql)), usage |-> 1],
        table_mapping)

\* the token usage the state holds when the node starts
PriorUsage == 2

\* the statements given to the node: one separator, one main query, one first
\* branch and no padding, with every header, ALTER VIEW text and size
IsNodeInput(inp) ==
    CASE inp.family = "statements" -> inp.sep = S_SEP_SEMI_NL /\ inp.trail = <<>>
      [] inp.family = "cte" -> inp.main = S_MAIN_FROM_A
      [] inp.family = "union" -> inp.first = S_SELECT_1
      [] inp.family = "threshold" -> inp.lead = <<>> /\ inp.trail = <<>>
      [] OTHER -> TRUE
NodeInputs ==
    {inp \in StatementInputs \cup CteInputs \cup UnionInputs \cup InsertInputs
                \cup AlterInputs \cup ThresholdInputs : IsNodeInput(inp)}

\* the workflow is about to call sql_convert(state)
InitNode ==
    /\ input \in NodeInputs
    /\ sql_in = Build(input)
    /\ original_sql = Strip(sql_in)
    /\ IF input.family = "threshold"
       THEN /\ max_len \in {MaxPad, DefaultMaxSqlLength}
            /\ max_lines \in {MaxPad - 1, DefaultMaxSqlLines}
       ELSE max_len = DefaultMaxSqlLength /\ max_lines = DefaultMaxSqlLines
    /\ decision = "unset"
    /\ pc = "new"
    /\ exc = "none"
    /\ chunks = <<>>
    /\ result = <<>>
    /\ fail_at = 0
    /\ calls = <<>>
    /\ ParenIdle
    /\ node = "sql_convert"
    /\ state \in [bigquery_sql : {Value("unbound", <<>>)}, retry_count : {0},
                  conversion_history : {<<>>}, token_usage : {PriorUsage},
                  table_mapping : {"empty", "some"}]
    /\ env \in [SQL_CHUNKING_MODE : ChunkingModes]
    /\ submitted = <<>>
    /\ executed = <<>>

\* sql_convert(state): the whole node
SqlConvertNode ==
    /\ node = "sql_convert"
    /\ pc = "new"
    /\ decision' = IF should_chunk(original_sql, max_len, max_lines) THEN "yes" ELSE "no"
    /\ LET r == ConvertAndMap(sql_in, analyze_and_chunk(original_sql),
                              UseChunking(env, should_chunk(original_sql, max_len,
                                                            max_lines)),
                              state.table_mapping)
       IN  /\ pc' = r.branch
           /\ exc' = r.exc
           /\ chunks' = r.chunks
           /\ calls' = r.calls
           /\ result' = IF r.exc = "none" THEN r.value.text ELSE <<>>
           /\ node' = IF r.exc = "none" THEN "bigquery_dry_run" ELSE "raised"
           /\ state' = IF r.exc # "none" THEN state
                       ELSE [state EXCEPT !.bigquery_sql = r.value,
                                          !.retry_count = 0,
                                          !.conversion_history = <<>>,
                                          !.token_usage = @ + r.usage]
    /\ UNCHANGED <<sql_in, original_sql, max_len, max_lines, input, fail_at, parenVars,
                   env, submitted, executed>>

NextNode == SqlConvertNode

SpecNode == InitNode /\ [][NextNode]_vars

(***************************************************************************)
(* C29                                                                     *)
(***************************************************************************)
\* the text the branch that ran should hand on: the merged conversions of the
\* fragments, or the conversion of the whole statement
ConvertedText(branch, cs, spark_sql) ==
    IF branch = "chunked" THEN convert_chunks(cs) ELSE _convert_single_chunk(spark_sql)

\* the node returned: bigquery_sql is the converted text, a string, with the
\* table names mapped, and every converter call added its usage
ReturnsMappedTextAndUsage ==
    (node = "sql_convert" /\ node' = "bigquery_dry_run")
        => /\ state'.bigquery_sql.form = "str"
           /\ state'.bigquery_sql.mapped
           /\ state'.bigquery_sql.text = ConvertedText(pc', chunks', sql_in)
           /\ state'.token_usage = state.token_usage + Len(calls')

\* C29: in every branch of sql_convert (direct, several fragments, chunking
\* requested but one fragment) the returned bigquery_sql is the converted SQL
\* text with the table names mapped, and the usage of every LLM call made in
\* the node is accumulated into the returned token_usage
C29_ReturnsMappedTextAndUsage == [][ReturnsMappedTextAndUsage]_vars

(***************************************************************************)
(* C30                                                                     *)
(***************************************************************************)
\* the node ran analyze_and_chunk
NodeAnalysed == pc \in {"analysis", "single", "chunked"}

\* what the node did under the mode named mode, the node having run:
\* "disabled" never analyses, "always" always does, any other value leaves it
\* to what should_chunk() returned; ChunkedConverter ran on several fragments
ModeObeyed(mode) ==
    /\ mode = M_DISABLED => pc = "direct"
    /\ mode = M_ALWAYS => NodeAnalysed
    /\ mode \notin {M_DISABLED, M_ALWAYS} => (NodeAnalysed <=> decision = "yes")
    /\ pc = "chunked" => Len(chunks) > 1
    /\ pc \in {"direct", "single"} => calls = <<sql_in>>

\* C30 (amended): the value of SQL_CHUNKING_MODE is compared in lower case
\* ("auto" when unset): "disabled" means analyze_and_chunk and ChunkedConverter
\* are never used whatever the SQL size, "always" means the SQL is always
\* analysed, any other value leaves the decision to should_chunk(); in every
\* mode the chunked converter is used only on more than one fragment
C30_ModeLowerCased ==
    pc # "new" => ModeObeyed(LowerStr(IF env.SQL_CHUNKING_MODE = P_UNSET THEN M_AUTO
                                      ELSE env.SQL_CHUNKING_MODE))

\* a statement over the thresholds converted directly under "Disabled"
C30_Witness ==
    /\ pc = "direct"
    /\ decision = "yes"
    /\ env.SQL_CHUNKING_MODE = M_DISABLED_CAPITAL

\* C30 (as stated): SQL_CHUNKING_MODE=disabled means analyze_and_chunk and
\* ChunkedConverter are never used whatever the SQL size, =always means the
\* SQL is always analysed whatever its size, and any other value leaves the
\* decision to should_chunk(); the chunked converter is used only when
\* analysis returns more than one fragment
C30_ModeAsWritten == pc # "new" => ModeObeyed(env.SQL_CHUNKING_MODE)

====
